---- MODULE Spec2Model ----
(***************************************************************************)
(* A model of negmas.situated: the World stepping loop, the negotiation    *)
(* registry fed by MechanismFactory, and the contract / breach lifecycle.  *)
(* World.step() is modelled phase by phase (pc is the position inside the *)
(* call, frame holds its local variables); the abstract hooks of World,   *)
(* the agents' answers and the protocol instances are inputs chosen with  *)
(* \E at the place the code calls them.                                    *)
(***************************************************************************)
EXTENDS Integers, Sequences, FiniteSets, TLC

\* ------------------------------------------------------------------ bounds
\* World(n_steps=...): the length of the simulation.
n_steps == 2
\* largest signing delay an agreement or the world default may carry
MaxDelay == 1
\* largest negotiation_speed (None is also tried)
MaxSpeed == 1
\* protocol instances created in one run (each concludes at most one contract)
MaxMechanisms == 2
\* breaches one execution attempt of a contract may produce
MaxBreaches == 2
\* largest simulation_priority an entity is registered with (0 is the default)
MaxPriority == 1
\* protocol parameters take the values 1..MaxValue
MaxValue == 2

\* Python's None where the other values are integers.
None == -1

Agents == {"a1", "a2"}
\* the partner list of every negotiation request of the model
Partners == <<"a1", "a2">>

\* the active entities that may join the world: the agents and one that is no agent
Entities == Agents \cup {"e1"}

Range(s) == {s[i] : i \in DOMAIN s}

VARIABLES
    \* ---- World configuration (World.__init__)
    negotiation_speed, default_signing_delay, immediate_negotiations,
    entities,       \* _entities: the registered active entities by simulation priority
    mechanisms,     \* the protocols registered with their default parameters, or None
    time_limit,     \* the wall-clock budget of run(): TRUE when one is given
    callers,        \* where negotiations are asked for: positions of step(), "idle"
    \* ---- World.run
    run,            \* the loop of World.run(): where it is and what it did
    \* ---- BulletinBoard
    data,           \* _data: the sections in the order they were added, each with its
                    \* records in the order they were stored
    announced,      \* the events the latest operation announced
    answer,         \* the latest operation, its arguments and what it returned
    \* ---- tournaments
    sampler,        \* iter_sample_fast: the call under way, or the latest one
    generator,      \* a WorldGenerator and the iteration over it
    tournament,     \* a Tournament: what __init__ set, and the runs of run()
    \* ---- World state
    current_step, negotiations, unsigned_contracts, saved_contracts, stats,
    n_negotiations, n_contracts_signed, n_contracts_concluded, bulletin_board,
    \* ---- objects the world refers to
    contracts,      \* Contract objects by id (with the callbacks each partner got)
    mechs,          \* protocol instances by id
    deleted,        \* contracts the world subclass has purged after execution
    \* ---- control
    pc,             \* position inside World.step(), "idle" between calls
    frame,          \* local variables of the running World.step()
    \* ---- observation
    trace,          \* phases completed by the latest step() call that passed the guard
    retval,         \* what the latest step() call returned
    last_neg,       \* what the latest MechanismFactory.init() produced
    pass_log,       \* execution passes of the latest step()
    breach_log      \* breach handling of the latest step()

logs == <<last_neg, pass_log, breach_log>>
\* what lies apart from step() and from the requests
tournaments == <<sampler, generator, tournament>>
apart == <<time_limit, callers, run, data, announced, answer, tournaments>>
config == <<negotiation_speed, default_signing_delay, immediate_negotiations, entities,
            mechanisms, apart>>
world == <<current_step, negotiations, unsigned_contracts, saved_contracts, stats,
           n_negotiations, n_contracts_signed, n_contracts_concluded, bulletin_board,
           contracts, mechs, deleted>>
vars == <<negotiation_speed, default_signing_delay, immediate_negotiations, entities,
          mechanisms, time_limit, callers, run, data, announced, answer,
          sampler, generator, tournament,
          current_step, negotiations, unsigned_contracts, saved_contracts, stats,
          n_negotiations, n_contracts_signed, n_contracts_concluded, bulletin_board,
          contracts, mechs, deleted, pc, frame,
          trace, retval, last_neg, pass_log, breach_log>>

\* ------------------------------------------------------------- World.__init__
StatNames == {"n_contracts_executed", "n_contracts_cancelled", "n_breaches",
              "n_contracts_signed", "n_contracts_concluded", "n_negotiations",
              "n_registered_negotiations_before", "n_registered_negotiations_after",
              "activity_level"}

\* the local variables of step() before the call touches them
EmptyFrame ==
    [n_new_contract_executions |-> 0, n_new_breaches |-> 0, n_cancelled |-> 0,
     activity_level |-> 0,
     sign_todo |-> {}, signed |-> <<>>,
     tasks |-> {}, stepped |-> <<>>,
     limit |-> None, mechanisms |-> {}, todo |-> {}, neg_step |-> 0,
     current_contracts |-> <<>>, breached_contracts |-> <<>>, executed |-> {},
     something_executed |-> FALSE]

\* an optional dictionary or list: None, or the value d
NoDict == [given |-> FALSE, dict |-> <<>>]
Given(d) == [given |-> TRUE, dict |-> d]
\* mechanism_name = None
NoName == "None"

\* what is seen of the last request: the arguments (issues given or None, the
\* protocol name and parameters, whether instantiating raises), what the factory did
\* (params it instantiated with, whether the partners were invited, their answers,
\* the callback the caller got, `by=None`), the NegotiationInfo returned and what
\* request_negotiation answered ("true", "false", or "raised" for an exception);
\* for a request every partner accepted, the roles it gave and the negotiators added
NoRequest ==
    [responses |-> [a \in Agents |-> TRUE], instance |-> None,
     mechanism |-> None, rejectors |-> {}, negotiators |-> {}, listeners |-> {},
     callback |-> "none",
     issues |-> TRUE, mechanism_name |-> NoName, mechanism_params |-> NoDict,
     raises |-> FALSE, params |-> <<>>, invited |-> FALSE, by_none |-> FALSE,
     success |-> "none", roles |-> NoDict, added |-> <<>>]

\* run() before it is called
NoRun == [pc |-> "idle", i |-> 0, calls |-> 0, started_at |-> None,
          expired |-> FALSE, ended |-> "none"]

\* no operation of the bulletin board is under way
NoAnswer ==
    [op |-> "none", section |-> [kind |-> "none", name |-> "", list |-> <<>>],
     query |-> [none |-> TRUE, pattern |-> <<>>, satisfied |-> {}], query_keys |-> FALSE,
     key |-> NoDict, value |-> None,
     raised |-> FALSE, none |-> FALSE, dict |-> <<>>, ok |-> FALSE]


\* iter_sample_fast is not called
NoSample == [pc |-> "idle", m |-> 0, n |-> 0, taken |-> 0, results |-> <<>>, i |-> 0]

\* no WorldGenerator is built
NoGenerator == [pc |-> "none", config |-> <<>>, variations |-> <<>>, len |-> 0,
                config_variations |-> <<>>, product |-> <<>>, yielded |-> <<>>]

\* no Tournament is built
NoTournament ==
    [pc |-> "none", competitors |-> <<>>, type |-> "one_vs_all", n_per_variation |-> 1,
     n_max |-> None, len |-> 0, population |-> <<>>, assignments |-> <<>>,
     capped |-> FALSE, i |-> 0, started |-> FALSE, has_w |-> FALSE, w |-> <<>>,
     runs |-> <<>>, fresh |-> <<>>, scores |-> <<>>]

\* the world is stepped by hand: run() is not used, and the board is left alone
Apart ==
    /\ time_limit = FALSE
    /\ callers = {"entities", "simulation"}
    /\ run = NoRun
    /\ data = <<>>
    /\ announced = <<>>
    /\ answer = NoAnswer
    /\ sampler = NoSample
    /\ generator = NoGenerator
    /\ tournament = NoTournament

\* what World.__init__ sets whatever its arguments are
Constructed ==
    /\ current_step = 0
    /\ negotiations = <<>>
    /\ unsigned_contracts = <<>>
    /\ saved_contracts = <<>>
    /\ stats = [s \in StatNames |-> <<>>]
    /\ n_negotiations = 0
    /\ n_contracts_signed = 0
    /\ n_contracts_concluded = 0
    /\ bulletin_board = [breaches |-> {}, stats |-> {}, settings |-> {}]
    /\ contracts = <<>>
    /\ mechs = <<>>
    /\ deleted = {}
    /\ pc = "idle"
    /\ frame = EmptyFrame
    /\ trace = <<>>
    /\ retval = "none"
    /\ last_neg = NoRequest
    /\ pass_log = <<>>
    /\ breach_log = <<>>

Init ==
    /\ negotiation_speed \in {None} \cup 1..MaxSpeed
    /\ default_signing_delay \in 0..MaxDelay
    /\ immediate_negotiations \in BOOLEAN
    /\ entities = (0 :> Agents)
    /\ mechanisms = NoDict
    /\ Apart
    /\ Constructed

\* ------------------------------------------------ inputs from the collaborators
\* what the abstract hooks _contract_finalization_time / _contract_executation_time
\* may answer
Times == 0..n_steps
\* Agent.sign_contract for every partner: a signature (1) or None
SignatureChoices == [Agents -> {None, 1}]
\* Agent.before_joining_negotiation for every partner: a negotiator (TRUE) or None
ResponseChoices == [Agents -> BOOLEAN]

\* mechanism.agreement: None, or an outcome that may carry a 'signing_delay' entry
NoAgreement == [exists |-> FALSE, signing_delay |-> None]
Agreements == {[exists |-> TRUE, signing_delay |-> d] : d \in {None} \cup 0..MaxDelay}
\* what one mechanism.step() of a running protocol instance may yield
StepResults ==
    {[agreement |-> NoAgreement, broken |-> FALSE, timedout |-> FALSE],
     [agreement |-> NoAgreement, broken |-> TRUE, timedout |-> FALSE],
     [agreement |-> NoAgreement, broken |-> FALSE, timedout |-> TRUE]}
    \cup {[agreement |-> a, broken |-> FALSE, timedout |-> FALSE] : a \in Agreements}
\* what mechanism.run() may end with
RunResults == {r \in StepResults : r.agreement.exists \/ r.broken \/ r.timedout}
\* a protocol instance that has ended keeps answering "no agreement, not broken"
EndedResult == [agreement |-> NoAgreement, broken |-> FALSE, timedout |-> TRUE]

NewMechanism(added, listeners) ==
    [status |-> "running", agreement |-> NoAgreement,
     negotiators |-> added, listeners |-> listeners,
     on_negotiation_failure |-> [a \in Agents |-> 0],
     restepped |-> FALSE,
     n_stepped |-> [i \in 0..(n_steps - 1) |-> 0]]

\* the protocol instance after one step() that yielded r; restepped notes a step()
\* made after the instance had yielded an agreement or a broken signal, n_stepped
\* counts the calls of step() made during each step of a world in interleaved mode
\* (in batch mode nothing bounds the calls and they are not counted)
Stepped(mech, r) ==
    LET n == IF negotiation_speed = None THEN 0 ELSE 1
    IN  IF mech.status # "running"
        THEN [mech EXCEPT !.restepped = @ \/ mech.status \in {"agreement", "broken"},
                          !.n_stepped[current_step] = @ + n]
        ELSE [mech EXCEPT
                !.status = IF r.agreement.exists THEN "agreement"
                           ELSE IF r.broken THEN "broken"
                           ELSE IF r.timedout THEN "timedout" ELSE "running",
                !.agreement = r.agreement,
                !.n_stepped[current_step] = @ + n]

\* mechanism.completed
Completed(mech) == mech.status # "running"

\* ------------------------------------------------------------------ the ledger
\* unsigned_contracts is a defaultdict(set): a missing key reads as the empty set
LedgerGet(ledger, k) == IF k \in DOMAIN ledger THEN ledger[k] ELSE {}

\* the contract filed under its signing step and under the step after it as well
LedgerAddTwice(ledger, k, c) ==
    [j \in DOMAIN ledger \cup {k, k + 1} |->
        IF j \in {k, k + 1} THEN LedgerGet(ledger, j) \cup {c} ELSE ledger[j]]

LedgerAdd(ledger, k, c) ==
    IF k \in DOMAIN ledger THEN [ledger EXCEPT ![k] = @ \cup {c}]
    ELSE ledger @@ (k :> {c})

LedgerRemove(ledger, k, c) ==
    IF k \in DOMAIN ledger THEN [ledger EXCEPT ![k] = @ \ {c}] ELSE ledger

\* -------------------------------------------------------------- _sign_contract
WindowRejected(fin, exe) == fin >= n_steps \/ exe < current_step

\* only the first partner's answer is looked at
FirstRejector(sig) == {a \in {Partners[1]} : sig[a] = None}

Rejectors(sig) == {a \in Range(Partners) : sig[a] = None}

\* all partners signed: the contract is bound and every partner is told
Bound(contract, sig) ==
    [contract EXCEPT
        !.signatures = {<<a, sig[a]>> : a \in Range(Partners)},
        !.signed_at = current_step,
        !.on_contract_signed = [a \in Agents |->
                                   IF a \in Range(Partners) THEN @[a] + 1 ELSE @[a]]]

\* only the partners that signed are told about the cancellation
CancelledForSigners(contract, rejectors) ==
    [contract EXCEPT
        !.on_contract_cancelled = [a \in Agents |->
                                      IF a \in Range(Partners) \ rejectors
                                      THEN @[a] + 1 ELSE @[a]],
        !.cancelled_by = rejectors]

\* somebody refused: every partner is told who
Cancelled(contract, rejectors) ==
    [contract EXCEPT
        !.on_contract_cancelled = [a \in Agents |->
                                      IF a \in Range(Partners) THEN @[a] + 1 ELSE @[a]],
        !.cancelled_by = rejectors]

\* a signing attempt is noted on the contract: whether the partners were asked and
\* what each answered
Attempt(contract, asked, sig) ==
    [contract EXCEPT !.n_attempts = @ + 1, !.asked = asked, !.sig = sig]

\* World._sign_contract: the contract afterwards and the value returned
SignContract(contract, fin, exe, sig) ==
    IF WindowRejected(fin, exe)
    THEN [contract |-> Attempt(contract, FALSE, [a \in Agents |-> None]),
          signed |-> FALSE]
    ELSE LET rejectors == Rejectors(sig)
             tried == Attempt(contract, TRUE, sig)
         IN  IF Cardinality(rejectors) = 0
             THEN [contract |-> Bound(tried, sig), signed |-> TRUE]
             ELSE [contract |-> Cancelled(tried, rejectors), signed |-> FALSE]

\* ---------------------------------------------------------- _register_contract
\* the agreement's own signing_delay ignored
WorldDelay(agreement) == default_signing_delay

SigningDelay(agreement) ==
    IF agreement.signing_delay = None THEN default_signing_delay
    ELSE agreement.signing_delay

NewContract(m, agreement, signing_delay) ==
    [partners |-> Partners, agreement |-> agreement, mechanism |-> m,
     concluded_at |-> current_step,
     to_be_signed_at |-> current_step + signing_delay,
     signed_at |-> None, signatures |-> {},
     on_negotiation_success |-> [a \in Agents |->
                                    IF a \in Range(Partners) THEN 1 ELSE 0],
     on_contract_signed |-> [a \in Agents |-> 0],
     on_contract_cancelled |-> [a \in Agents |-> 0],
     cancelled_by |-> {},
     n_attempts |-> 0, asked |-> FALSE, sig |-> [a \in Agents |-> None]]

\* the signing on the spot left out: every contract waits for a signing phase
SignsLater(signing_delay) == FALSE

\* whether _register_contract attempts the signing on the spot
SignsImmediately(signing_delay) == signing_delay = 0

\* World._register_contract for the agreement of protocol instance m (the contract
\* takes the id m), with World.on_contract_concluded and, for a zero signing delay,
\* _sign_contract and World.on_contract_signed
RegisterContract(m, agreement) ==
    LET signing_delay == SigningDelay(agreement)
        contract == NewContract(m, agreement, signing_delay)
        concluded == LedgerAdd(unsigned_contracts, current_step + signing_delay, m)
    IN  /\ n_contracts_concluded' = n_contracts_concluded + 1
        /\ IF SignsImmediately(signing_delay)
           THEN \E fin \in Times, exe \in Times, sig \in SignatureChoices :
                LET r == SignContract(contract, fin, exe, sig)
                IN  /\ contracts' = contracts @@ (m :> r.contract)
                    /\ IF r.signed
                       THEN /\ n_contracts_signed' = n_contracts_signed + 1
                            /\ unsigned_contracts' = LedgerRemove(concluded, current_step, m)
                            /\ saved_contracts' = Append(saved_contracts, m)
                       ELSE /\ unsigned_contracts' = concluded
                            /\ UNCHANGED <<n_contracts_signed, saved_contracts>>
           ELSE /\ contracts' = contracts @@ (m :> contract)
                /\ unsigned_contracts' = concluded
                /\ UNCHANGED <<n_contracts_signed, saved_contracts>>

\* World._register_failed_negotiation: every partner's on_negotiation_failure
FailedNegotiation(mech) ==
    [mech EXCEPT !.on_negotiation_failure =
        [a \in Agents |-> IF a \in Range(Partners) THEN @[a] + 1 ELSE @[a]]]

contract_vars == <<contracts, unsigned_contracts, saved_contracts,
                   n_contracts_signed, n_contracts_concluded>>

\* the registry left without the session everybody still held for instance m
StillRegistered(reg, m) == reg

\* `del self.negotiations[mechanism.uuid]`
Unregistered(reg, m) == [k \in DOMAIN reg \ {m} |-> reg[k]]

\* what follows a mechanism.step() that yielded r for instance m, with registry reg
\* and instances ms as they are after the step (step._run_negotiations and the
\* same lines of _register_negotiation)
Finalize(reg, ms, m, r) ==
    IF r.agreement.exists \/ r.broken
    THEN /\ IF ~r.agreement.exists
            THEN /\ mechs' = [ms EXCEPT ![m] = FailedNegotiation(@)]
                 /\ UNCHANGED contract_vars
            ELSE /\ mechs' = ms
                 /\ RegisterContract(m, r.agreement)
         /\ negotiations' = Unregistered(reg, m)
    ELSE /\ mechs' = ms
         /\ negotiations' = reg
         /\ UNCHANGED contract_vars

\* ------------------------------------------------------------ MechanismFactory
\* the protocols callers may name, and the keys and dictionaries of their parameters
MechanismNames == {"sao", "other"}
ParamKeys == {"p", "n_steps"}
ParamDicts == UNION {[K -> 1..MaxValue] : K \in SUBSET ParamKeys}

\* World.neg_n_steps and World.neg_time_limit (their defaults)
neg_n_steps == 100
neg_time_limit == 3 * 60

\* the name passes `mechanisms is not None and mechanism_name not in mechanisms.keys()`
NameKnown(mechanism_name) ==
    ~mechanisms.given \/ mechanism_name \in DOMAIN mechanisms.dict

\* dict.update: d with the entries of other written over it
Update(d, other) ==
    [k \in DOMAIN d \cup DOMAIN other |-> IF k \in DOMAIN other THEN other[k] ELSE d[k]]

\* the world's defaults for a protocol that passed the check of its name
\* (`if mechanisms and mechanisms[mechanism_name]`)
Defaults(mechanism_name) ==
    IF mechanisms.given /\ DOMAIN mechanisms.dict # {}
    THEN mechanisms.dict[mechanism_name]
    ELSE <<>>

\* the parameters the factory sets itself (issues, annotation and name are set the
\* same way)
FactoryParams == [n_steps |-> neg_n_steps, time_limit |-> neg_time_limit]

\* the parameters the protocol is instantiated with: the caller's dictionary (None
\* is the empty one) updated with the world's defaults, then with the factory's own
MechanismParams(mechanism_name, mechanism_params) ==
    Update(Update(mechanism_params.dict, Defaults(mechanism_name)), FactoryParams)

\* the rejection reported as one by all the partners
RejectionByPartners(asked) ==
    [asked EXCEPT !.callback = "rejected", !.rejectors = Range(Partners),
                  !.success = "false"]

\* `caller.on_neg_request_rejected(req_id=req_id, by=None); return None` for the
\* request asked: what is seen of it afterwards
Rejection(asked) ==
    [asked EXCEPT !.callback = "rejected", !.by_none = TRUE, !.success = "false"]

\* MechanismFactory._start_negotiation up to the invitation: "rejected" for no
\* issues or a name that is not registered, "raised" when instantiate() raises (the
\* handler calls self.logerror and self._log_header, which the factory does not
\* have, and the AttributeError leaves the factory), "created" otherwise
Instantiated(issues, mechanism_name, raises) ==
    IF ~issues \/ ~NameKnown(mechanism_name) THEN "rejected"
    ELSE IF raises THEN "raised"
    ELSE "created"

\* `any(responses)` in the place of `all(responses)`
AnyAccepted(responses) == \E i \in DOMAIN Partners : responses[Partners[i]]

\* `all(responses)`: every invited partner returned a negotiator
AllAccepted(responses) == \A i \in DOMAIN Partners : responses[Partners[i]]

\* the roles callers give: None, or one role for every partner
NoRole == "None"
RoleChoices == {NoDict, Given(<<"buyer", "seller">>)}

\* `if roles is None: roles = [None] * len(partners)`
RolesOf(roles) == IF roles.given THEN roles.dict ELSE [i \in DOMAIN Partners |-> NoRole]

\* every representative added with the role of the first partner
AddedWithFirstRole(roles) ==
    [i \in DOMAIN Partners |-> <<Partners[i], RolesOf(roles)[1]>>]

\* the calls `mechanism.add(negotiator=_negotiator, role=_role)` made over
\* zip(responses, roles) when every partner returned a negotiator: the partner whose
\* negotiator is added and the role, in order
Added(roles) ==
    [i \in DOMAIN Partners |-> <<Partners[i], RolesOf(roles)[i]>>]

\* MechanismFactory._create_negotiation_session: who is registered on the protocol
\* instance (listeners first, then one negotiator per response)
CreateNegotiationSession(responses) ==
    [listeners |-> Range(Partners),
     negotiators |-> {Partners[i] : i \in {j \in DOMAIN Partners : responses[Partners[j]]}}]

\* MechanismFactory._start_negotiation from the invitation on, for an instantiated
\* protocol instance m: the answers, the NegotiationInfo returned (mechanism and
\* rejectors), what was registered on the instance and the callback the caller got
StartNegotiation(m, responses) ==
    IF ~AllAccepted(responses)
    THEN [NoRequest EXCEPT
            !.responses = responses, !.instance = m, !.invited = TRUE,
            !.rejectors = {Partners[i] : i \in {j \in DOMAIN Partners : ~responses[Partners[j]]}},
            !.callback = "rejected"]
    ELSE LET session == CreateNegotiationSession(responses)
         IN  [NoRequest EXCEPT
                !.responses = responses, !.instance = m, !.invited = TRUE,
                !.mechanism = m,
                !.negotiators = session.negotiators, !.listeners = session.listeners,
                !.callback = "accepted"]

\* the entry keeps no protocol instance
NegotiationInfoWithoutMechanism(neg) ==
    [mechanism |-> None, partners |-> Partners, rejectors |-> neg.rejectors]

NegotiationInfo(neg) ==
    [mechanism |-> neg.mechanism, partners |-> Partners, rejectors |-> neg.rejectors]

\* the id the next protocol instance gets
NextMechanism == Cardinality(DOMAIN mechs) + 1

\* where negotiations are asked for: by an agent through its interface to the world
\* while step() steps the entities, and by the world's own _simulation_step(); in
\* the worlds that allow it, between two calls of step() and from the callbacks
\* _sign_contract makes, once the signing loop has called it
CallerCanAct ==
    /\ pc \in callers
    /\ pc = "sign" => (frame.signed # <<>> \/ frame.n_cancelled > 0)

step_vars == <<current_step, stats, bulletin_board, deleted, pc, frame,
               trace, retval, pass_log, breach_log>>

\* World.request_negotiation -> _register_negotiation(run_to_completion=False)
\* World.request_negotiation -> _register_negotiation -> MechanismFactory.init()
\* with the given arguments, the partners answering with responses
Request(issues, mechanism_name, mechanism_params, raises, roles, responses) ==
    LET m == NextMechanism
        outcome == Instantiated(issues, mechanism_name, raises)
        asked == [NoRequest EXCEPT !.issues = issues, !.mechanism_name = mechanism_name,
                                   !.mechanism_params = mechanism_params,
                                   !.raises = raises]
    IN  IF outcome = "rejected"
        THEN /\ last_neg' = Rejection(asked)
             /\ UNCHANGED <<negotiations, mechs, n_negotiations, contract_vars>>
        ELSE IF outcome = "raised"
        THEN /\ last_neg' = [asked EXCEPT
                                !.params = MechanismParams(mechanism_name, mechanism_params),
                                !.success = "raised"]
             /\ UNCHANGED <<negotiations, mechs, n_negotiations, contract_vars>>
        ELSE LET started == StartNegotiation(m, responses)
                 neg == [started EXCEPT
                           !.issues = issues, !.mechanism_name = mechanism_name,
                           !.mechanism_params = mechanism_params, !.raises = raises,
                           !.params = MechanismParams(mechanism_name, mechanism_params),
                           !.success = IF started.mechanism # None THEN "true"
                                       ELSE "false",
                           !.roles = IF started.mechanism # None THEN roles ELSE NoDict,
                           !.added = IF started.mechanism # None THEN Added(roles)
                                     ELSE <<>>]
             IN  /\ last_neg' = neg
                 /\ IF neg.mechanism = None
                    THEN UNCHANGED <<negotiations, mechs, n_negotiations, contract_vars>>
                    ELSE LET ms == mechs @@ (m :> NewMechanism(neg.negotiators,
                                                               neg.listeners))
                             reg == negotiations @@ (m :> NegotiationInfo(neg))
                         IN  /\ n_negotiations' = n_negotiations + 1
                             /\ IF immediate_negotiations
                                THEN \E r \in StepResults :
                                        Finalize(reg, [ms EXCEPT ![m] = Stepped(@, r)], m, r)
                                ELSE /\ mechs' = ms
                                     /\ negotiations' = reg
                                     /\ UNCHANGED contract_vars

\* a request an agent or the world makes inside step(): the world picks the protocol
\* (no name, no parameters) and the protocol can be created
RequestNegotiation ==
    /\ CallerCanAct
    /\ NextMechanism <= MaxMechanisms
    /\ \E roles \in RoleChoices, responses \in ResponseChoices :
         Request(TRUE, NoName, NoDict, FALSE, roles, responses)
    /\ UNCHANGED <<config, step_vars>>

\* World.run_negotiation -> _register_negotiation(run_to_completion=True), then
\* mechanism.run() and the registration of its result
RunNegotiation ==
    /\ CallerCanAct
    /\ NextMechanism <= MaxMechanisms
    /\ \E roles \in RoleChoices, responses \in ResponseChoices :
         LET m == NextMechanism
             started == StartNegotiation(m, responses)
             neg == [started EXCEPT
                       !.roles = IF started.mechanism # None THEN roles ELSE NoDict,
                       !.added = IF started.mechanism # None THEN Added(roles) ELSE <<>>]
         IN  /\ last_neg' = neg
             /\ IF neg.mechanism = None
                THEN UNCHANGED <<mechs, n_negotiations, contract_vars>>
                ELSE /\ n_negotiations' = n_negotiations + 1
                     /\ \E r \in RunResults :
                          LET ms == mechs @@ (m :> Stepped(NewMechanism(neg.negotiators,
                                                                      neg.listeners), r))
                          IN  IF ~r.agreement.exists
                              THEN /\ mechs' = [ms EXCEPT ![m] = FailedNegotiation(@)]
                                   /\ UNCHANGED contract_vars
                              ELSE /\ mechs' = ms
                                   /\ RegisterContract(m, r.agreement)
    /\ UNCHANGED <<config, step_vars, negotiations>>

\* ------------------------------------------------------------------ World.step
\* a guard that is off by one: a step past the end is let through
StepAllowedAtEnd == current_step <= n_steps

\* the guard of step(): `if self.current_step >= self.n_steps: return False`
StepAllowed == current_step < n_steps

\* the entities step() gathers, each with the priority it is registered under
Tasks(ents) == UNION {{<<p, e>> : e \in ents[p]} : p \in DOMAIN ents}

\* the priorities taken in no order: any gathered entity may come next
AnyTask(tasks) == tasks

\* the entities that may come next in the list step() walks: the list goes through
\* sorted(self._entities.keys()), and inside one priority in the order the set yields
NextTasks(tasks) == {t \in tasks : \A u \in tasks : t[1] <= u[1]}

\* negotiations run in both negotiation phases, whatever negotiation_speed is
BothNegotiationPhases(p) ==
    CASE p = "sign" -> "batch"
      [] p = "batch" -> "entities"
      [] p = "entities" -> "execute"
      [] p = "execute" -> "simulation"
      [] p = "simulation" -> "throttled"
      [] p = "throttled" -> "purge"
      [] p = "purge" -> "update"
      [] OTHER -> "idle"

\* the execution phase never hands over to the simulation step
NextPhasePastSimulation(p) ==
    CASE p = "sign" -> IF negotiation_speed = None THEN "batch" ELSE "entities"
      [] p = "batch" -> "entities"
      [] p = "entities" -> "execute"
      [] p = "execute" -> IF negotiation_speed # None THEN "throttled" ELSE "purge"
      [] p = "throttled" -> "purge"
      [] p = "purge" -> "update"
      [] OTHER -> "idle"

\* the order of the phases inside step(): what follows phase p
NextPhase(p) ==
    CASE p = "sign" -> IF negotiation_speed = None THEN "batch" ELSE "entities"
      [] p = "batch" -> "entities"
      [] p = "entities" -> "execute"
      [] p = "execute" -> "simulation"
      [] p = "simulation" -> IF negotiation_speed # None THEN "throttled" ELSE "purge"
      [] p = "throttled" -> "purge"
      [] p = "purge" -> "update"
      [] OTHER -> "idle"

\* the first lines of _run_negotiations(n_steps) when phase p is a negotiation phase
EnterPhase(f, p) ==
    IF p \in {"batch", "throttled"}
    THEN [f EXCEPT !.limit = IF p = "batch" THEN None ELSE negotiation_speed,
                   !.mechanisms = DOMAIN negotiations,
                   !.todo = DOMAIN negotiations,
                   !.neg_step = 0]
    ELSE IF p = "entities"
    THEN [f EXCEPT !.tasks = Tasks(entities)]
    ELSE f

\* the locals that are still read after phase p
Live(f) ==
    [EmptyFrame EXCEPT !.n_new_contract_executions = f.n_new_contract_executions,
                       !.n_new_breaches = f.n_new_breaches,
                       !.n_cancelled = f.n_cancelled,
                       !.activity_level = f.activity_level]

\* phase p is over with the locals f: step() moves on to the next phase
Move(p, f) ==
    /\ pc' = NextPhase(p)
    /\ trace' = Append(trace, p)
    /\ frame' = EnterPhase(Live(f), NextPhase(p))

\* the same, and what was observed during the phase is forgotten
Leave(p, f) ==
    /\ Move(p, f)
    /\ last_neg' = NoRequest
    /\ pass_log' = <<>>
    /\ breach_log' = <<>>

\* step() passes its guard: statistics are opened and the contracts to sign fetched
StepEnter ==
    /\ pc = "idle"
    /\ StepAllowed
    /\ retval' = "none"
    /\ trace' = <<>>
    /\ last_neg' = NoRequest
    /\ pass_log' = <<>>
    /\ breach_log' = <<>>
    /\ stats' = [stats EXCEPT !.n_registered_negotiations_before =
                    Append(@, Cardinality(DOMAIN negotiations))]
    /\ frame' = [EmptyFrame EXCEPT !.sign_todo = LedgerGet(unsigned_contracts, current_step)]
    /\ pc' = "sign"
    /\ UNCHANGED <<config, current_step, negotiations, unsigned_contracts, saved_contracts,
                   n_negotiations, n_contracts_signed, n_contracts_concluded,
                   bulletin_board, contracts, mechs, deleted>>

\* step() after the end of the simulation: logs an error and returns False
StepRefuse ==
    /\ pc = "idle"
    /\ ~StepAllowed
    /\ retval' = "false"
    /\ UNCHANGED <<config, world, pc, frame, trace, logs>>

\* ---- phase 1: signing of the contracts scheduled for current_step
\* `unsigned` is the set the ledger holds for current_step, not a copy: the set
\* iterator finds the set of another size than when the iteration began. (The
\* contracts signed so far leave the set only in the loop after this one.)
Resized ==
    Cardinality(LedgerGet(unsigned_contracts, current_step)) #
        Cardinality(frame.sign_todo) + Len(frame.signed) + frame.n_cancelled

\* the iterator raises RuntimeError ("Set changed size during iteration") when it
\* is asked for the next contract: the error leaves step(), whose later phases,
\* on_contract_signed calls and counter updates are not made
SignRaise ==
    /\ pc = "sign"
    /\ Resized
    /\ pc' = "idle"
    /\ retval' = "raised"
    /\ frame' = EmptyFrame
    /\ UNCHANGED <<config, world, trace, logs>>

\* one iteration of `for contract in unsigned`
SignOne ==
    /\ pc = "sign"
    /\ ~Resized
    /\ \E c \in frame.sign_todo, fin \in Times, exe \in Times, sig \in SignatureChoices :
         LET r == SignContract(contracts[c], fin, exe, sig)
         IN  /\ contracts' = [contracts EXCEPT ![c] = r.contract]
             /\ frame' = [frame EXCEPT
                            !.sign_todo = @ \ {c},
                            !.signed = IF r.signed THEN Append(@, c) ELSE @,
                            !.n_cancelled = IF r.signed THEN @ ELSE @ + 1]
    /\ UNCHANGED <<config, current_step, negotiations, unsigned_contracts, saved_contracts,
                   stats, n_negotiations, n_contracts_signed, n_contracts_concluded,
                   bulletin_board, mechs, deleted, pc, trace,
                   retval, logs>>

\* World.on_contract_signed for each contract of a list, on the ledger
RECURSIVE LedgerAfterSigned(_, _)
LedgerAfterSigned(ledger, signed) ==
    IF signed = <<>> THEN ledger
    ELSE LedgerAfterSigned(LedgerRemove(ledger, current_step, Head(signed)), Tail(signed))

\* `for contract in signed: self.on_contract_signed(contract)`
SignEnd ==
    /\ pc = "sign"
    /\ ~Resized
    /\ frame.sign_todo = {}
    /\ n_contracts_signed' = n_contracts_signed + Len(frame.signed)
    /\ unsigned_contracts' = LedgerAfterSigned(unsigned_contracts, frame.signed)
    /\ saved_contracts' = saved_contracts \o frame.signed
    /\ Leave("sign", frame)
    /\ UNCHANGED <<config, current_step, negotiations, stats, n_negotiations,
                   n_contracts_concluded, bulletin_board, contracts, mechs, deleted, retval>>

\* ---- phases 2 and 6: _run_negotiations
\* one mechanism.step() of the pass over the shuffled list, and what it leads to
NegotiateOne ==
    /\ pc \in {"batch", "throttled"}
    /\ \E m \in frame.todo :
         /\ \E r \in (IF Completed(mechs[m]) THEN {EndedResult} ELSE StepResults) :
              Finalize(negotiations, [mechs EXCEPT ![m] = Stepped(@, r)], m, r)
         /\ frame' = [frame EXCEPT !.todo = @ \ {m}]
    /\ UNCHANGED <<config, current_step, stats, n_negotiations, bulletin_board, deleted,
                   pc, trace, retval, logs>>

\* the end of a pass: the list is rebuilt, the pass counter checked against n_steps.
\* (The counter is only read when a limit is given; it is kept at 0 otherwise.)
NegotiatePassEnd ==
    /\ pc \in {"batch", "throttled"}
    /\ frame.todo = {}
    /\ frame.mechanisms # {}
    /\ LET rebuilt == DOMAIN negotiations
           k == IF frame.limit = None THEN 0 ELSE frame.neg_step + 1
       IN  IF (frame.limit # None /\ k >= frame.limit) \/ rebuilt = {}
           THEN Leave(pc, frame)
           ELSE /\ frame' = [frame EXCEPT !.mechanisms = rebuilt, !.todo = rebuilt,
                                          !.neg_step = k]
                /\ UNCHANGED <<pc, trace, logs>>
    /\ UNCHANGED <<config, world, retval>>

\* `while len(mechanisms) > 0` with nothing registered: the phase does nothing
NegotiateNothing ==
    /\ pc \in {"batch", "throttled"}
    /\ frame.mechanisms = {}
    /\ Leave(pc, frame)
    /\ UNCHANGED <<config, world, retval>>

\* ---- phase 3: every registered entity is stepped (what an entity does to the
\* world inside its step() are the caller actions enabled at this position)
\* `task.step()` for the next entity of the list
StepTask ==
    /\ pc = "entities"
    /\ \E t \in NextTasks(frame.tasks) :
          frame' = [frame EXCEPT !.tasks = @ \ {t}, !.stepped = Append(@, t)]
    /\ UNCHANGED <<config, world, pc, trace, retval, logs>>

\* the list is through
StepEntities ==
    /\ pc = "entities"
    /\ frame.tasks = {}
    /\ Leave("entities", frame)
    /\ UNCHANGED <<config, world, retval>>

\* ---- phase 4: execution of the due contracts
\* _get_executable_contracts may answer any set of contracts that were signed and
\* that _delete_executed_contracts has not purged yet
Executable == {c \in DOMAIN contracts : contracts[c].signed_at # None /\ c \notin deleted}

\* _contract_execution_order may answer any order of them
Orders(due) == {o \in [1..Cardinality(due) -> due] : Range(o) = due}

\* _contract_size
ContractSize(c) == 1

\* the breaches an execution attempt of contract c returned, in iteration order
Breaches(c, n) == [i \in 1..n |-> [contract |-> c, idx |-> i, step |-> current_step]]

\* `for contract in current_contracts` of one pass; outcome[c] is the number of
\* breaches _execute_contract(c) returns in this pass
RECURSIVE ExecuteContracts(_, _, _)
ExecuteContracts(cs, outcome, f) ==
    IF cs = <<>> THEN f
    ELSE LET contract == Head(cs)
         IN  ExecuteContracts(Tail(cs), outcome,
                IF outcome[contract] < 1
                THEN [f EXCEPT !.executed = @ \cup {contract},
                               !.n_new_contract_executions = @ + 1,
                               !.activity_level = @ + ContractSize(contract)]
                ELSE [f EXCEPT !.breached_contracts =
                         Append(@, [contract |-> contract,
                                    breaches |-> Breaches(contract, outcome[contract])])])

\* the disabled assignment enabled: a clean execution asks for another pass
SomethingClean(clean) == clean # {}

\* the value something_executed has at the end of a pass in which the contracts
\* `clean` executed without a breach (the assignment that would set it is disabled)
SomethingExecuted(clean) == FALSE

\* `current_contracts = [_[0] for _ in breached_contracts]`
BreachedList(breached_contracts) ==
    [i \in DOMAIN breached_contracts |-> breached_contracts[i].contract]

\* the contracts are fetched and ordered; without any the phase does nothing
ExecuteStart ==
    /\ pc = "execute"
    /\ \E due \in SUBSET Executable :
         IF Cardinality(due) > 0
         THEN \E order \in Orders(due) :
                /\ frame' = [frame EXCEPT !.current_contracts = order,
                                          !.something_executed = TRUE]
                /\ pc' = "execute_pass"
                /\ UNCHANGED <<trace, logs>>
         ELSE Leave("execute", frame)
    /\ UNCHANGED <<config, world, retval>>

\* one pass of `while something_executed`
ExecutePass ==
    /\ pc = "execute_pass"
    /\ frame.something_executed
    /\ \E outcome \in [Range(frame.current_contracts) -> 0..MaxBreaches] :
         LET f == ExecuteContracts(frame.current_contracts, outcome, frame)
             clean == {c \in Range(frame.current_contracts) : outcome[c] < 1}
         IN  /\ frame' = [f EXCEPT
                            !.something_executed = SomethingExecuted(clean),
                            !.current_contracts = BreachedList(f.breached_contracts)]
             /\ pass_log' = Append(pass_log,
                                   [attempted |-> frame.current_contracts,
                                    clean |-> clean,
                                    breached |-> Range(frame.current_contracts) \ clean])
    /\ UNCHANGED <<config, world, pc, trace, retval, last_neg,
                   breach_log>>

\* `for breach in contract_breaches` for one contract; hook[b] is what
\* _process_breach(b) answers. acc collects which breaches were passed to the hook,
\* which of those it resolved and which were recorded with _register_breach
RECURSIVE ProcessBreaches(_, _, _, _)
ProcessBreaches(bs, hook, contract_resolved, acc) ==
    IF bs = <<>> THEN acc
    ELSE LET breach == Head(bs)
         IN  IF contract_resolved
             THEN ProcessBreaches(Tail(bs), hook, TRUE,
                                  [acc EXCEPT !.recorded = Append(@, breach)])
             ELSE ProcessBreaches(Tail(bs), hook, hook[breach],
                                  [acc EXCEPT !.offered = Append(@, breach),
                                              !.resolved = IF hook[breach]
                                                           THEN Append(@, breach) ELSE @])

HandleBreaches(entry, hook) ==
    ProcessBreaches(entry.breaches, hook, FALSE,
                    [contract |-> entry.contract, breaches |-> entry.breaches,
                     offered |-> <<>>, resolved |-> <<>>, recorded |-> <<>>])

AllBreaches(breached_contracts) ==
    UNION {Range(breached_contracts[i].breaches) : i \in DOMAIN breached_contracts}

RECURSIVE CountBreaches(_)
CountBreaches(breached_contracts) ==
    IF breached_contracts = <<>> THEN 0
    ELSE Len(Head(breached_contracts).breaches) + CountBreaches(Tail(breached_contracts))

\* after the passes: `for contract, contract_breaches in breached_contracts`, then
\* _delete_executed_contracts
ExecuteResolve ==
    /\ pc = "execute_pass"
    /\ ~frame.something_executed
    /\ \E hook \in [AllBreaches(frame.breached_contracts) -> BOOLEAN] :
         LET log == [i \in DOMAIN frame.breached_contracts |->
                        HandleBreaches(frame.breached_contracts[i], hook)]
         IN  /\ breach_log' = log
             /\ bulletin_board' = [bulletin_board EXCEPT !.breaches =
                    @ \cup UNION {Range(log[i].recorded) : i \in DOMAIN log}]
    /\ deleted' = deleted \cup frame.executed
                    \cup Range(BreachedList(frame.breached_contracts))
    /\ Move("execute", [frame EXCEPT !.n_new_breaches =
                            @ + CountBreaches(frame.breached_contracts)])
    /\ last_neg' = NoRequest
    /\ UNCHANGED <<config, current_step, negotiations, unsigned_contracts, saved_contracts,
                   stats, n_negotiations, n_contracts_signed, n_contracts_concluded,
                   contracts, mechs, retval, pass_log>>

\* ---- phase 5: the world's own _simulation_step (what it does to the world are the
\* caller actions enabled at this position)
SimulationStep ==
    /\ pc = "simulation"
    /\ Leave("simulation", frame)
    /\ UNCHANGED <<config, world, retval>>

\* only the sessions that yielded an agreement or a broken signal are dropped
WithoutConcluded(reg) ==
    [k \in {j \in DOMAIN reg : mechs[j].status \notin {"agreement", "broken"}} |-> reg[k]]

\* the registry after `for key in completed: del self.negotiations[key]`
WithoutCompleted(reg) ==
    [k \in {j \in DOMAIN reg : ~Completed(mechs[j])} |-> reg[k]]

\* ---- phase 7: sessions whose protocol instance is completed leave the registry
Purge ==
    /\ pc = "purge"
    /\ negotiations' = WithoutCompleted(negotiations)
    /\ Leave("purge", frame)
    /\ UNCHANGED <<config, current_step, unsigned_contracts, saved_contracts, stats,
                   n_negotiations, n_contracts_signed, n_contracts_concluded,
                   bulletin_board, contracts, mechs, deleted, retval>>

\* the increment forgotten
SameStep(step) == step

\* a step counted twice
StepAfterNext(step) == step + 2

\* `self.current_step += 1`
NextStep(step) == step + 1

\* ---- phase 8: the statistics of the step, the counters, current_step; return True
UpdateStats ==
    /\ pc = "update"
    /\ stats' = [stats EXCEPT
          !.n_contracts_executed = Append(@, frame.n_new_contract_executions),
          !.n_contracts_cancelled = Append(@, frame.n_cancelled),
          !.n_breaches = Append(@, frame.n_new_breaches),
          !.n_contracts_signed = Append(@, n_contracts_signed),
          !.n_contracts_concluded = Append(@, n_contracts_concluded),
          !.n_negotiations = Append(@, n_negotiations),
          !.n_registered_negotiations_after = Append(@, Cardinality(DOMAIN negotiations)),
          !.activity_level = Append(@, frame.activity_level)]
    /\ n_negotiations' = 0
    /\ n_contracts_signed' = 0
    /\ n_contracts_concluded' = 0
    /\ current_step' = NextStep(current_step)
    /\ retval' = "true"
    /\ pc' = NextPhase("update")
    /\ trace' = Append(trace, "update")
    /\ frame' = EmptyFrame
    /\ UNCHANGED <<config, negotiations, unsigned_contracts, saved_contracts,
                   bulletin_board, contracts, mechs, deleted,
                   logs>>

Next ==
    \/ RequestNegotiation
    \/ RunNegotiation
    \/ StepEnter
    \/ StepRefuse
    \/ SignOne
    \/ SignEnd
    \/ NegotiateOne
    \/ NegotiatePassEnd
    \/ NegotiateNothing
    \/ StepTask
    \/ StepEntities
    \/ ExecuteStart
    \/ ExecutePass
    \/ ExecuteResolve
    \/ SimulationStep
    \/ Purge
    \/ UpdateStats

Spec == Init /\ [][Next]_vars

\* ------------------------------------------------------- World.register / join
\* _entities is a defaultdict(set): the entity is added to the set of its priority
Registered(ents, x, simulation_priority) ==
    [p \in DOMAIN ents \cup {simulation_priority} |->
        IF p = simulation_priority
        THEN (IF p \in DOMAIN ents THEN ents[p] ELSE {}) \cup {x}
        ELSE ents[p]]

\* an entity that is not in the world yet joins it between two steps
Register ==
    /\ pc = "idle"
    /\ \E x \in Entities \ {t[2] : t \in Tasks(entities)}, simulation_priority \in 0..MaxPriority :
          entities' = Registered(entities, x, simulation_priority)
    /\ UNCHANGED <<negotiation_speed, default_signing_delay, immediate_negotiations,
                   mechanisms, apart, world, pc, frame, trace, retval, logs>>

\* a world that starts empty: entities join and the world is stepped, nobody asks
\* for a negotiation
InitEntities ==
    /\ negotiation_speed \in {None} \cup 1..MaxSpeed
    /\ default_signing_delay = 0
    /\ immediate_negotiations = FALSE
    /\ entities = <<>>
    /\ mechanisms = NoDict
    /\ Apart
    /\ Constructed

NextEntities ==
    \/ Register
    \/ StepEnter
    \/ StepRefuse
    \/ SignEnd
    \/ NegotiateNothing
    \/ StepTask
    \/ StepEntities
    \/ ExecuteStart
    \/ SimulationStep
    \/ Purge
    \/ UpdateStats

SpecEntities == InitEntities /\ [][NextEntities]_vars

\* ------------------------------------------------------------------ World.run
\* `self._start_time = time.monotonic()` and the loop entered
RunStart ==
    /\ run.pc = "idle"
    /\ pc = "idle"
    /\ run' = [run EXCEPT !.pc = "loop", !.started_at = current_step]
    /\ UNCHANGED <<negotiation_speed, default_signing_delay, immediate_negotiations,
                   entities, mechanisms, time_limit, callers, data, announced, answer,
                   tournaments, world,
                   pc, frame, trace, retval, logs>>

\* the loop is over after one round too many
RangeOneMore(n) == n + 1

\* `range(self.n_steps)`: the number of rounds of the loop
RangeLen(n) == n

\* one round of `for _ in range(self.n_steps)`: the loop is through, or the budget
\* is found exhausted (the clock may say so whenever a budget is given), or step()
\* is called
RunLoop ==
    /\ run.pc = "loop"
    /\ IF run.i >= RangeLen(n_steps)
       THEN /\ run' = [run EXCEPT !.pc = "done", !.ended = "range"]
            /\ UNCHANGED retval
       ELSE \E exhausted \in (IF time_limit THEN BOOLEAN ELSE {FALSE}) :
                IF exhausted
                THEN /\ run' = [run EXCEPT !.pc = "done", !.ended = "time_limit",
                                           !.expired = TRUE]
                     /\ UNCHANGED retval
                ELSE /\ run' = [run EXCEPT !.pc = "step", !.i = @ + 1, !.calls = @ + 1]
                     /\ retval' = "none"
    /\ UNCHANGED <<negotiation_speed, default_signing_delay, immediate_negotiations,
                   entities, mechanisms, time_limit, callers, data, announced, answer,
                   tournaments, world,
                   pc, frame, trace, logs>>

\* step() has returned to the loop: `if not self.step(): break`
RunReturn ==
    /\ run.pc = "step"
    /\ pc = "idle"
    /\ retval # "none"
    /\ run' = IF retval = "false" THEN [run EXCEPT !.pc = "done", !.ended = "step"]
              ELSE [run EXCEPT !.pc = "loop"]
    /\ UNCHANGED <<negotiation_speed, default_signing_delay, immediate_negotiations,
                   entities, mechanisms, time_limit, callers, data, announced, answer,
                   tournaments, world,
                   pc, frame, trace, retval, logs>>

\* step() is entered by hand before run() is called, or by the loop of run()
StepCalled == run.pc = "idle" \/ (run.pc = "step" /\ retval = "none")

CallStep == StepCalled /\ StepEnter

CallStepRefused == StepCalled /\ StepRefuse

\* a world with entities and no negotiations, stepped by hand and then run
InitRun ==
    /\ negotiation_speed \in {None} \cup 1..MaxSpeed
    /\ default_signing_delay \in 0..MaxDelay
    /\ immediate_negotiations \in BOOLEAN
    /\ entities = (0 :> Agents)
    /\ mechanisms = NoDict
    /\ time_limit \in BOOLEAN
    /\ callers = {"entities", "simulation"}
    /\ run = NoRun
    /\ data = <<>>
    /\ announced = <<>>
    /\ answer = NoAnswer
    /\ sampler = NoSample
    /\ generator = NoGenerator
    /\ tournament = NoTournament
    /\ Constructed

NextRun ==
    \/ RunStart
    \/ RunLoop
    \/ RunReturn
    \/ CallStep
    \/ CallStepRefused
    \/ SignEnd
    \/ NegotiateNothing
    \/ StepTask
    \/ StepEntities
    \/ ExecuteStart
    \/ SimulationStep
    \/ Purge
    \/ UpdateStats

SpecRun == InitRun /\ [][NextRun]_vars

\* -------------------------------------------------------------- BulletinBoard
\* A dict is written as the sequence of its <<key, value>> items in insertion order.
\* Section names are strings; the keys of records are strings of digits, written as
\* the tuples of their digits; the values stored are objects told apart by their
\* hash.
SectionNames == {"market", "_log"}
BoardValues == {1, 12}
BoardKeys == {<<1>>, <<1, 2>>}

\* `_.startswith('_')`
Internal(name) == name \in {"_log"}

KeysOf(d) == {d[i][1] : i \in DOMAIN d}
\* d[k] for a key that is there
Get(d, k) == d[CHOOSE i \in DOMAIN d : d[i][1] = k][2]
\* d[k] = v: a key that is there keeps its place
Put(d, k, v) ==
    IF k \in KeysOf(d)
    THEN [i \in DOMAIN d |-> IF d[i][1] = k THEN <<k, v>> ELSE d[i]]
    ELSE Append(d, <<k, v>>)
\* del d[k]
Del(d, k) ==
    LET keep(e) == e[1] # k
    IN  SelectSeq(d, keep)
\* {k: v for k, v in d.items() if ...}: the items with a key in ks
Only(d, ks) ==
    LET keep(e) == e[1] \in ks
    IN  SelectSeq(d, keep)

\* other's items added to final, a key final holds already keeping its value
RECURSIVE UpdateKeepingFirst(_, _)
UpdateKeepingFirst(final, other) ==
    IF other = <<>> THEN final
    ELSE UpdateKeepingFirst(IF Head(other)[1] \in KeysOf(final) THEN final
                            ELSE Append(final, Head(other)), Tail(other))

\* final.update(other)
RECURSIVE UpdateItems(_, _)
UpdateItems(final, other) ==
    IF other = <<>> THEN final
    ELSE UpdateItems(Put(final, Head(other)[1], Head(other)[2]), Tail(other))

\* str(n) for a number n >= 0, as the tuple of its digits
RECURSIVE Digits(_)
Digits(n) == IF n < 10 THEN <<n>> ELSE Append(Digits(n \div 10), n % 10)

\* `re.match(pattern, k) is not None` for a pattern of plain digits: the key begins
\* with the pattern
Matches(pattern, k) ==
    /\ Len(pattern) <= Len(k)
    /\ \A i \in DOMAIN pattern : pattern[i] = k[i]

\* the queries callers pass: None, or an object that str() turns into a pattern for
\* keys and that a stored value satisfies or not
NoQuery == [none |-> TRUE, pattern |-> <<>>, satisfied |-> {}]
Queries == {NoQuery,
            [none |-> FALSE, pattern |-> <<1>>, satisfied |-> {12}],
            [none |-> FALSE, pattern |-> <<1, 2>>, satisfied |-> {1, 12}]}

\* the section argument: None, a name, or a list of names
Section(kind, name, list) == [kind |-> kind, name |-> name, list |-> list]
SectionChoices ==
    {Section("none", "", <<>>), Section("list", "", <<>>)}
        \cup {Section("name", a, <<>>) : a \in SectionNames}
        \cup {Section("list", "", <<a>>) : a \in SectionNames}
        \cup {Section("list", "", <<a, b>>) : a, b \in SectionNames}

\* every section of the board taken for a public one
EverySection(d) == [i \in DOMAIN d |-> d[i][1]]

\* `[_ for _ in self._data.keys() if not _.startswith('_')]`
PublicSections(d) ==
    LET public(e) == ~Internal(e[1])
        kept == SelectSeq(d, public)
    IN  [i \in DOMAIN kept |-> kept[i][1]]

\* the keys of section sec a query selects
Selected(sec, query, query_keys) ==
    {k \in KeysOf(sec) : IF query_keys THEN Matches(query.pattern, k)
                                        ELSE Get(sec, k) \in query.satisfied}

\* query() for one section name: None (`if not sec`) for a section that is unknown
\* or holds nothing, else the section or the part of it the query selects
QueryOne(d, name, query, query_keys) ==
    IF name \notin KeysOf(d) \/ Get(d, name) = <<>>
    THEN [raised |-> FALSE, none |-> TRUE, dict |-> <<>>]
    ELSE LET sec == Get(d, name)
         IN  [raised |-> FALSE, none |-> FALSE,
              dict |-> IF query.none THEN sec
                       ELSE Only(sec, Selected(sec, query, query_keys))]

\* `for _ in results: final.update(_)`: update(None) raises TypeError
RECURSIVE UpdateAll(_, _)
UpdateAll(final, results) ==
    IF results = <<>> THEN [raised |-> FALSE, none |-> FALSE, dict |-> final]
    ELSE IF Head(results).none THEN [raised |-> TRUE, none |-> FALSE, dict |-> <<>>]
    ELSE UpdateAll(UpdateItems(final, Head(results).dict), Tail(results))

\* query() for a list of names
QueryList(d, list, query, query_keys) ==
    LET results == [i \in DOMAIN list |-> QueryOne(d, list[i], query, query_keys)]
    IN  IF Len(results) = 0 THEN [raised |-> FALSE, none |-> FALSE, dict |-> <<>>]
        ELSE UpdateAll(<<>>, results)

\* BulletinBoard.query
Query(d, section, query, query_keys) ==
    IF section.kind = "none" THEN QueryList(d, PublicSections(d), query, query_keys)
    ELSE IF section.kind = "list" THEN QueryList(d, section.list, query, query_keys)
    ELSE QueryOne(d, section.name, query, query_keys)

\* BulletinBoard.read: the value, or None
Read(d, name, k) ==
    IF name \notin KeysOf(d) THEN None
    ELSE IF k \notin KeysOf(Get(d, name)) THEN None
    ELSE Get(Get(d, name), k)

\* an event as it is announced: its type, the section (its name; will_remove_record
\* carries the section's dictionary in its place), the key and the value, and
\* whether the record was in the section when the event was announced
BoardEvent(type, d, name, k, v) ==
    [type |-> type, section |-> name, key |-> k, value |-> v,
     present |-> name \in KeysOf(d) /\ k \in KeysOf(Get(d, name))
                 /\ Get(Get(d, name), k) = v]

\* the records with keys ks deleted from section name, the event of each announced
\* once it is deleted
RECURSIVE RemoveKeysThenAnnounce(_, _, _, _)
RemoveKeysThenAnnounce(d, name, ks, events) ==
    IF ks = <<>> THEN [data |-> d, events |-> events, ok |-> TRUE]
    ELSE LET k == Head(ks)
             sec == Get(d, name)
             after == Put(d, name, Del(sec, k))
         IN  RemoveKeysThenAnnounce(after, name, Tail(ks),
                                    Append(events, BoardEvent("will_remove_record",
                                                              after, name, k,
                                                              Get(sec, k))))

\* the records with keys ks deleted from section name one after the other, each
\* after its will_remove_record event: the board, the events and the flag returned
RECURSIVE RemoveKeys(_, _, _, _)
RemoveKeys(d, name, ks, events) ==
    IF ks = <<>> THEN [data |-> d, events |-> events, ok |-> TRUE]
    ELSE LET k == Head(ks)
             sec == Get(d, name)
         IN  RemoveKeys(Put(d, name, Del(sec, k)), name, Tail(ks),
                        Append(events, BoardEvent("will_remove_record", d, name, k,
                                                  Get(sec, k))))

\* the keys of sec, in its order, that are in ks
KeysInOrder(sec, ks) ==
    LET kept == Only(sec, ks)
    IN  [i \in DOMAIN kept |-> kept[i][1]]

\* remove() for one section name
RemoveOne(d, name, query, key, query_keys, value) ==
    IF name \notin KeysOf(d) THEN [data |-> d, events |-> <<>>, ok |-> FALSE]
    ELSE LET sec == Get(d, name)
             holding == KeysInOrder(sec, {k \in KeysOf(sec) : Get(sec, k) = value})
             found == IF value # None /\ holding # <<>> THEN Given(holding[1]) ELSE key
         IN  IF found.given
             THEN IF found.dict \in KeysOf(sec)
                  THEN RemoveKeys(d, name, <<found.dict>>, <<>>)
                  ELSE [data |-> d, events |-> <<>>, ok |-> FALSE]
             ELSE IF query.none THEN [data |-> d, events |-> <<>>, ok |-> FALSE]
             ELSE LET keys == KeysInOrder(sec, Selected(sec, query, query_keys))
                  IN  IF Len(keys) = 0 THEN [data |-> d, events |-> <<>>, ok |-> FALSE]
                      ELSE RemoveKeys(d, name, keys, <<>>)

\* remove() for a list of names: `all(self.remove(section=_, ...) for _ in section)`
\* stops at the first section that answers False; the value is not handed on
RECURSIVE RemoveList(_, _, _, _, _, _)
RemoveList(d, list, query, key, query_keys, events) ==
    IF list = <<>> THEN [data |-> d, events |-> events, ok |-> TRUE]
    ELSE LET r == RemoveOne(d, Head(list), query, key, query_keys, None)
         IN  IF ~r.ok THEN [data |-> r.data, events |-> events \o r.events, ok |-> FALSE]
             ELSE RemoveList(r.data, Tail(list), query, key, query_keys,
                             events \o r.events)

\* BulletinBoard.remove
Remove(d, section, query, key, query_keys, value) ==
    IF section.kind = "none"
    THEN RemoveList(d, PublicSections(d), query, key, query_keys, <<>>)
    ELSE IF section.kind = "list"
    THEN RemoveList(d, section.list, query, key, query_keys, <<>>)
    ELSE RemoveOne(d, section.name, query, key, query_keys, value)

board_rest == <<negotiation_speed, default_signing_delay, immediate_negotiations,
                entities, mechanisms, time_limit, callers, run, tournaments, world, pc, frame,
                trace, retval,
                logs>>

\* BulletinBoard.add_section
AddSection ==
    /\ answer.op = "none"
    /\ \E name \in SectionNames :
         /\ data' = Put(data, name, <<>>)
         /\ announced' = <<>>
         /\ answer' = [NoAnswer EXCEPT !.op = "add_section", !.section = Section("name", name, <<>>)]
    /\ UNCHANGED board_rest

\* BulletinBoard.record: the key is str(hash(value)) when none is given;
\* `self._data[section][skey] = value` raises KeyError for an unknown section
RecordValue ==
    /\ answer.op = "none"
    /\ \E name \in SectionNames, value \in BoardValues,
          key \in {NoDict} \cup {Given(k) : k \in BoardKeys} :
         LET skey == IF key.given THEN key.dict ELSE Digits(value)
             asked == [NoAnswer EXCEPT !.op = "record", !.section = Section("name", name, <<>>),
                                       !.key = Given(skey), !.value = value]
         IN  IF name \notin KeysOf(data)
             THEN /\ answer' = [asked EXCEPT !.raised = TRUE]
                  /\ announced' = <<>>
                  /\ UNCHANGED data
             ELSE LET stored == Put(data, name, Put(Get(data, name), skey, value))
                  IN  /\ data' = stored
                      /\ announced' = <<BoardEvent("new_record", stored, name, skey,
                                                   value)>>
                      /\ answer' = asked
    /\ UNCHANGED board_rest

\* BulletinBoard.read
ReadValue ==
    /\ answer.op = "none"
    /\ \E name \in SectionNames, k \in BoardKeys :
         /\ answer' = [NoAnswer EXCEPT !.op = "read", !.section = Section("name", name, <<>>),
                                       !.key = Given(k), !.value = Read(data, name, k)]
         /\ announced' = <<>>
    /\ UNCHANGED <<data, board_rest>>

\* BulletinBoard.query
QueryBoard ==
    /\ answer.op = "none"
    /\ \E section \in SectionChoices, query \in Queries, query_keys \in BOOLEAN :
         LET r == Query(data, section, query, query_keys)
         IN  /\ answer' = [NoAnswer EXCEPT !.op = "query", !.section = section,
                                           !.query = query, !.query_keys = query_keys,
                                           !.raised = r.raised, !.none = r.none,
                                           !.dict = r.dict]
             /\ announced' = <<>>
    /\ UNCHANGED <<data, board_rest>>

\* what remove() is called with: a key, a value, a query on keys or on values, or
\* nothing to go by
RemoveChoices ==
    {[query |-> NoQuery, query_keys |-> FALSE, key |-> Given(k), value |-> None] :
        k \in BoardKeys}
    \cup {[query |-> NoQuery, query_keys |-> FALSE, key |-> NoDict, value |-> v] :
        v \in BoardValues}
    \cup {[query |-> q, query_keys |-> b, key |-> NoDict, value |-> None] :
        q \in Queries, b \in BOOLEAN}

\* BulletinBoard.remove
RemoveRecords ==
    /\ answer.op = "none"
    /\ \E section \in SectionChoices, by \in RemoveChoices :
         LET r == Remove(data, section, by.query, by.key, by.query_keys, by.value)
         IN  /\ data' = r.data
             /\ announced' = r.events
             /\ answer' = [NoAnswer EXCEPT !.op = "remove", !.section = section,
                                           !.query = by.query,
                                           !.query_keys = by.query_keys,
                                           !.key = by.key, !.value = by.value,
                                           !.ok = r.ok]
    /\ UNCHANGED board_rest

\* the caller takes the answer
BoardReturn ==
    /\ answer.op # "none"
    /\ answer' = NoAnswer
    /\ announced' = <<>>
    /\ UNCHANGED <<data, board_rest>>

\* the world is built and left as it is: what stands beside it is used
InitAside ==
    /\ negotiation_speed = None
    /\ default_signing_delay = 0
    /\ immediate_negotiations = FALSE
    /\ entities = (0 :> Agents)
    /\ mechanisms = NoDict
    /\ Apart
    /\ Constructed

NextBoard ==
    \/ AddSection
    \/ RecordValue
    \/ ReadValue
    \/ QueryBoard
    \/ RemoveRecords
    \/ BoardReturn

SpecBoard == InitAside /\ [][NextBoard]_vars

\* ----------------------------------------------------------- iter_sample_fast
MaxStream == 3
MaxSample == 3

tournament_rest == <<negotiation_speed, default_signing_delay, immediate_negotiations,
                     entities, mechanisms, time_limit, callers, run, data, announced,
                     answer, world, pc, frame, trace, retval, logs>>

\* The items of the stream are known by their positions 1..m in it: `results` holds
\* the positions of the items the list holds.

\* the whole stream is taken whatever n is
CalledForAll(m, n) ==
    [pc |-> "shuffle", m |-> m, n |-> m, taken |-> m, results |-> [j \in 1..m |-> j], i |-> m]

\* `for _ in range(n): results.append(next(iterator))`: StopIteration becomes
\* ValueError when the stream has fewer than n items
Called(m, n) ==
    IF n > m
    THEN [pc |-> "raised", m |-> m, n |-> n, taken |-> m, results |-> <<>>, i |-> 0]
    ELSE [pc |-> "shuffle", m |-> m, n |-> n, taken |-> n,
          results |-> [j \in 1..n |-> j], i |-> n]

\* the orders random.shuffle(results) can leave the list in
Shuffles(results) ==
    {[j \in DOMAIN results |-> results[p[j]]] : p \in Permutations(DOMAIN results)}

\* the item added at the end of the list
Inserted(results, r, v) == Append(results, v)

\* `results[r] = v`
Replaced(results, r, v) == [results EXCEPT ![r + 1] = v]

\* iter_sample_fast(iterator, n) is called on a stream of m items
SampleCall ==
    /\ sampler.pc = "idle"
    /\ tournament.pc = "none"
    /\ generator.pc = "none"
    /\ \E m \in 0..MaxStream, n \in 0..MaxSample : sampler' = Called(m, n)
    /\ UNCHANGED <<generator, tournament, tournament_rest>>

\* `random.shuffle(results)`
SampleShuffle ==
    /\ sampler.pc = "shuffle"
    /\ \E shuffled \in Shuffles(sampler.results) :
         sampler' = [sampler EXCEPT !.pc = "replace", !.results = shuffled]
    /\ UNCHANGED <<generator, tournament, tournament_rest>>

\* one round of `for i, v in enumerate(iterator, n)`: `r = random.randint(0, i)`,
\* and `results[r] = v` when r < n
SampleReplace ==
    /\ sampler.pc = "replace"
    /\ sampler.taken < sampler.m
    /\ \E r \in 0..sampler.i :
         sampler' = [sampler EXCEPT
                        !.results = IF r < sampler.n
                                    THEN Replaced(@, r, sampler.taken + 1) ELSE @,
                        !.taken = @ + 1, !.i = @ + 1]
    /\ UNCHANGED <<generator, tournament, tournament_rest>>

\* the stream is at its end: `return results`
SampleReturn ==
    /\ sampler.pc = "replace"
    /\ sampler.taken = sampler.m
    /\ sampler' = [sampler EXCEPT !.pc = "returned"]
    /\ UNCHANGED <<generator, tournament, tournament_rest>>

\* ------------------------------------------------------------- WorldGenerator
\* A value of a configuration is a single value or a list of values.
Value(list, items) == [list |-> list, items |-> items]

\* the dicts of variations: the names "n_steps" and "a/b", none of them, one or
\* both in either order, each with a list of no, one or two values
VariationChoices ==
    LET names == {"n_steps", "a/b"}
        lists == {<<>>, <<1>>, <<1, 2>>}
    IN  {<<>>} \cup {<<<<n, vals>>>> : n \in names, vals \in lists}
               \cup UNION {{<<<<n1, vals1>>, <<n2, vals2>>>> :
                               n2 \in names \ {n1}, vals1 \in lists, vals2 \in lists} :
                            n1 \in names}

\* `n.split('/')`
Split(n) == IF n = "a/b" THEN <<"a", "b">> ELSE <<n>>

\* the configuration read from base_config: the values of the nested dictionaries
\* by their paths
BaseConfig == <<<<<<"n_steps">>, Value(FALSE, <<0>>)>>, <<<<"a", "b">>, Value(FALSE, <<0>>)>>>>

\* `n = 1; for vals in self.variations.values(): n *= len(vals)`
RECURSIVE LenProduct(_)
LenProduct(variations) ==
    IF variations = <<>> THEN 1
    ELSE Len(Head(variations)[2]) * LenProduct(Tail(variations))

\* WorldGenerator.__init__; config_variations is the zip iterator, the items it
\* has still to give
Generator(variations) ==
    [pc |-> "built", config |-> BaseConfig, variations |-> variations,
     len |-> LenProduct(variations), config_variations |-> variations,
     product |-> <<>>, yielded |-> <<>>]

\* `itertools.product(self.config_variations)`: the product of ONE iterable, a
\* 1-tuple for each of its items
Product(iterable) == [j \in DOMAIN iterable |-> <<iterable[j]>>]

\* `for n, v in pairs:` the value v set in config at the path n names
RECURSIVE SetPairs(_, _)
SetPairs(cfg, pairs) ==
    IF pairs = <<>> THEN cfg
    ELSE SetPairs(Put(cfg, Split(Head(pairs)[1]), Value(TRUE, Head(pairs)[2])), Tail(pairs))

\* the body of WorldGenerator.__iter__ begins to run: config is copied and the
\* product is taken, which uses up the zip iterator
Iterating(g) ==
    [g EXCEPT !.pc = "iterating", !.product = Product(g.config_variations),
              !.config_variations = <<>>, !.config = BaseConfig, !.yielded = <<>>]

\* the generator gives its next world, built from config as it is now
Yielding(g) ==
    LET cfg == SetPairs(g.config, Head(g.product))
    IN  [g EXCEPT !.config = cfg, !.product = Tail(@), !.yielded = Append(@, cfg)]

\* a WorldGenerator is built
GeneratorInit ==
    /\ generator.pc = "none"
    /\ tournament.pc = "none"
    /\ sampler.pc = "idle"
    /\ \E variations \in VariationChoices : generator' = Generator(variations)
    /\ UNCHANGED <<sampler, tournament, tournament_rest>>

\* `iter(generator)` and the first step into its body
IterStart ==
    /\ generator.pc \in {"built", "ended"}
    /\ tournament.pc = "none"
    /\ generator' = Iterating(generator)
    /\ UNCHANGED <<sampler, tournament, tournament_rest>>

\* one round of `for pairs in itertools.product(...)`, to its yield
IterNext ==
    /\ generator.pc = "iterating"
    /\ tournament.pc = "none"
    /\ generator.product # <<>>
    /\ generator' = Yielding(generator)
    /\ UNCHANGED <<sampler, tournament, tournament_rest>>

\* the product is used up: the iteration ends
IterEnd ==
    /\ generator.pc = "iterating"
    /\ tournament.pc = "none"
    /\ generator.product = <<>>
    /\ generator' = [generator EXCEPT !.pc = "ended"]
    /\ UNCHANGED <<sampler, tournament, tournament_rest>>

NextGenerator ==
    \/ GeneratorInit
    \/ IterStart
    \/ IterNext
    \/ IterEnd

SpecGenerator == InitAside /\ [][NextGenerator]_vars

\* ----------------------------------------------------------------- Tournament
MaxCompetitors == 2
MaxRuns == 2
MaxCap == 2

\* the competitors are class names
CompetitorNames == {"ab", "Buyer"}
\* len(c) of a competitor name c
NameLen(c) == IF c = "ab" THEN 2 ELSE 5


\* math.factorial
RECURSIVE Factorial(_)
Factorial(m) == IF m = 0 THEN 1 ELSE m * Factorial(m - 1)

\* itertools.permutations(s): every order of the items of s by their positions,
\* in lexicographic order of the positions
RECURSIVE Permuted(_), PermutedFrom(_, _)
PermutedFrom(s, j) ==
    IF j > Len(s) THEN <<>>
    ELSE LET rest == [k \in 1..(Len(s) - 1) |-> IF k < j THEN s[k] ELSE s[k + 1]]
             tails == Permuted(rest)
         IN  [k \in DOMAIN tails |-> <<s[j]>> \o tails[k]] \o PermutedFrom(s, j + 1)
Permuted(s) == IF Len(s) = 0 THEN << <<>> >> ELSE PermutedFrom(s, 1)

\* `((c1, c2) for c1 in competitors for c2 in competitors if c1 != c2)`
Pairs(s) ==
    LET m == Len(s)
        all == [k \in 1..(m * m) |-> <<s[((k - 1) \div m) + 1], s[((k - 1) % m) + 1]>>]
        distinct(pair) == pair[1] # pair[2]
    IN  SelectSeq(all, distinct)

\* the number of assignments __init__ counts on
Counted(type, m) ==
    IF type = "one_vs_all" THEN Factorial(m)
    ELSE IF type = "one_vs_one" THEN m * (m - 1)
    ELSE m

\* what the iterator self.assignments gives; for one_vs_builtins
\* `((c,) for c in competitors)`
Assignments(type, competitors) ==
    IF type = "one_vs_all" THEN Permuted(competitors)
    ELSE IF type = "one_vs_one" THEN Pairs(competitors)
    ELSE [k \in DOMAIN competitors |-> <<competitors[k]>>]

\* the keys of `dict(zip(competitors, ...))`, and of the dict __init__ fills by
\* `for c in self.competitors: self.scores[c] = []`: the names in the order of
\* their first places
AgentIds(competitors) ==
    LET first(k) == \A j \in 1..(k - 1) : competitors[j] # competitors[k]
        places == SelectSeq([k \in DOMAIN competitors |-> k], first)
    IN  [j \in DOMAIN places |-> competitors[places[j]]]

\* Tournament.__init__, up to the call of iter_sample_fast when the cap applies
TournamentInit ==
    /\ tournament.pc = "none"
    /\ generator.pc = "none"
    /\ sampler.pc = "idle"
    /\ \E variations \in VariationChoices,
          competitors \in UNION {[1..m -> CompetitorNames] : m \in 0..MaxCompetitors},
          tournament_type \in {"one_vs_all", "one_vs_one", "one_vs_builtins"},
          n_runs_per_variation \in 1..MaxRuns,
          n_max_runs \in {None} \cup 1..MaxCap :
         LET g == Generator(variations)
             n == Counted(tournament_type, Len(competitors))
             n_per_assignment == g.len * n_runs_per_variation
             n_total == n * n_per_assignment
             all == Assignments(tournament_type, competitors)
             capped == n_max_runs # None /\ n_total > n_max_runs
         IN  /\ generator' = g
             /\ tournament' =
                    [NoTournament EXCEPT
                        !.pc = IF capped THEN "sampling" ELSE "constructed",
                        !.competitors = competitors, !.type = tournament_type,
                        !.n_per_variation = n_runs_per_variation,
                        !.n_max = n_max_runs, !.len = n_total,
                        !.population = all, !.assignments = all, !.capped = capped,
                        !.scores = [j \in DOMAIN AgentIds(competitors) |->
                                       <<AgentIds(competitors)[j], <<>>>>]]
             /\ sampler' = IF capped
                           THEN Called(Len(all), n_max_runs \div n_per_assignment)
                           ELSE sampler
    /\ UNCHANGED tournament_rest

\* iter_sample_fast has returned to __init__: the sample is the assignments
TournamentSampled ==
    /\ tournament.pc = "sampling"
    /\ sampler.pc = "returned"
    /\ tournament' = [tournament EXCEPT
                         !.pc = "constructed",
                         !.assignments = [j \in DOMAIN sampler.results |->
                                             tournament.population[sampler.results[j]]]]
    /\ UNCHANGED <<sampler, generator, tournament_rest>>

\* iter_sample_fast has raised ValueError: it leaves __init__, no tournament is built
TournamentAborted ==
    /\ tournament.pc = "sampling"
    /\ sampler.pc = "raised"
    /\ tournament' = [tournament EXCEPT !.pc = "aborted"]
    /\ UNCHANGED <<sampler, generator, tournament_rest>>

\* Tournament.run() is called
TournamentRun ==
    /\ tournament.pc = "constructed"
    /\ tournament' = [tournament EXCEPT !.pc = "running"]
    /\ UNCHANGED <<sampler, generator, tournament_rest>>

\* self.runs asked for its next item: `((a, w, i) for i in range(n_per_variation)
\* for w in self.generator for a in self.assignments)`. Each round of the outer
\* loop iterates the generator anew; self.assignments is one iterator, used on
\* from where it was left.
RECURSIVE NextOfRuns(_, _)
NextOfRuns(t, g) ==
    IF t.i >= t.n_per_variation THEN [found |-> FALSE, t |-> t, g |-> g]
    ELSE IF ~t.started
    THEN NextOfRuns([t EXCEPT !.started = TRUE, !.has_w = FALSE], Iterating(g))
    ELSE IF ~t.has_w
    THEN IF g.product = <<>>
         THEN NextOfRuns([t EXCEPT !.i = @ + 1, !.started = FALSE],
                         [g EXCEPT !.pc = "ended"])
         ELSE LET y == Yielding(g)
              IN  NextOfRuns([t EXCEPT !.has_w = TRUE, !.w = y.config], y)
    ELSE IF t.assignments = <<>>
    THEN NextOfRuns([t EXCEPT !.has_w = FALSE], g)
    ELSE [found |-> TRUE, t |-> [t EXCEPT !.assignments = Tail(@)], g |-> g]

\* `for c, aid in agent_ids:` goes over the keys of the dict, the competitor names,
\* and unpacks each into two: ValueError unless the name has two characters
ScoringRaises(competitors) ==
    \E k \in DOMAIN competitors : NameLen(competitors[k]) # 2

\* `for c, aid in agent_ids: self.scores[c].append(self.evaluate(...))`: each key,
\* a name, is unpacked into c and aid, which raises unless it has two characters;
\* "ab" gives c = "a", and self.scores, a defaultdict, takes the new key. The value
\* evaluate() gives is modelled by the number of the run.
RECURSIVE Scored(_, _, _)
Scored(scores, agent_ids, value) ==
    IF agent_ids = <<>> \/ NameLen(Head(agent_ids)) # 2 THEN scores
    ELSE LET c == "a"
             list == IF c \in KeysOf(scores) THEN Get(scores, c) ELSE <<>>
         IN  Scored(Put(scores, c, Append(list, value)), Tail(agent_ids), value)

\* one round of Tournament.__iter__: the world is run, the scores are added. The
\* world is new when self.runs had to ask the generator for it, and the one of the
\* run before when only the assignment is new.
TournamentNext ==
    /\ tournament.pc = "running"
    /\ LET next == NextOfRuns(tournament, generator)
           a == Head(tournament.assignments)
       IN  /\ next.found
           /\ generator' = next.g
           /\ tournament' =
                  [next.t EXCEPT
                      !.runs = Append(@, [a |-> a, w |-> next.t.w, i |-> next.t.i]),
                      !.fresh = Append(@, ~tournament.has_w),
                      !.scores = Scored(@, AgentIds(a), Len(tournament.runs) + 1),
                      !.pc = IF ScoringRaises(a) THEN "raised" ELSE "running"]
    /\ UNCHANGED <<sampler, tournament_rest>>

\* self.runs is used up: run() returns
TournamentDone ==
    /\ tournament.pc = "running"
    /\ LET next == NextOfRuns(tournament, generator)
       IN  /\ ~next.found
           /\ generator' = next.g
           /\ tournament' = [next.t EXCEPT !.pc = "done"]
    /\ UNCHANGED <<sampler, tournament_rest>>

NextTournament ==
    \/ SampleCall
    \/ SampleShuffle
    \/ SampleReplace
    \/ SampleReturn
    \/ TournamentInit
    \/ TournamentSampled
    \/ TournamentAborted
    \/ TournamentRun
    \/ TournamentNext
    \/ TournamentDone

SpecTournament == InitAside /\ [][NextTournament]_vars

\* ------------------------------------------------ requests with any arguments
\* the worlds built without or with a registry of one protocol and its defaults;
\* sessions are not stepped when they are registered
InitFactory ==
    /\ negotiation_speed = None
    /\ default_signing_delay = 0
    /\ immediate_negotiations = FALSE
    /\ entities = (0 :> Agents)
    /\ mechanisms \in {NoDict} \cup {Given("sao" :> d) : d \in ParamDicts}
    /\ Apart
    /\ Constructed

\* World.request_negotiation called on a world that is not inside step(), with any
\* protocol name and parameters, a protocol that can be created or not
RequestProtocol ==
    /\ pc = "idle"
    /\ NextMechanism <= MaxMechanisms
    /\ \E issues \in BOOLEAN, mechanism_name \in MechanismNames \cup {NoName},
          mechanism_params \in {NoDict} \cup {Given(d) : d \in ParamDicts},
          raises \in BOOLEAN, roles \in RoleChoices, responses \in ResponseChoices :
         Request(issues, mechanism_name, mechanism_params, raises, roles, responses)
    /\ UNCHANGED <<config, step_vars>>

NextFactory == RequestProtocol

SpecFactory == InitFactory /\ [][NextFactory]_vars

\* ------------------------------------------------------------ interleaved mode
\* the worlds built with a negotiation_speed, zero included
InitThrottled ==
    /\ negotiation_speed \in 0..MaxSpeed
    /\ default_signing_delay \in 0..MaxDelay
    /\ immediate_negotiations \in BOOLEAN
    /\ entities = (0 :> Agents)
    /\ mechanisms = NoDict
    /\ Apart
    /\ Constructed

SpecThrottled == InitThrottled /\ [][Next]_vars

\* ================================================================== properties
\* every partner of contract k answered the latest signing attempt with a signature
AllSigned(k) == k.asked /\ \A a \in Range(k.partners) : k.sig[a] # None

\* the delay that applies to an agreement: its own, or the world's default
EffectiveDelay(agreement) ==
    IF agreement.signing_delay # None THEN agreement.signing_delay
    ELSE default_signing_delay

\* the contracts the ledger holds under any key
InLedger == UNION {unsigned_contracts[k] : k \in DOMAIN unsigned_contracts}

\* C1: a step() call made when current_step >= n_steps returns False and changes
\* nothing: current_step, the statistics lists, the registry, the unsigned ledger,
\* the saved contracts, the bulletin board, the contracts and protocol instances
\* (with the callbacks their agents received) stay as they were, and no phase of
\* the step (hence no hook) runs.
C1_StepAfterEndChangesNothing ==
    [][(pc = "idle" /\ current_step >= n_steps)
          => /\ retval' = "false"
             /\ pc' = "idle"
             /\ current_step' = current_step
             /\ stats' = stats
             /\ negotiations' = negotiations
             /\ unsigned_contracts' = unsigned_contracts
             /\ saved_contracts' = saved_contracts
             /\ bulletin_board' = bulletin_board
             /\ contracts' = contracts
             /\ mechs' = mechs
             /\ deleted' = deleted
             /\ <<n_negotiations, n_contracts_signed, n_contracts_concluded>>' =
                    <<n_negotiations, n_contracts_signed, n_contracts_concluded>>
             /\ trace' = trace
             /\ frame' = frame
             /\ logs' = logs]_vars

\* a refused call on a world that has contracts, breaches and statistics to lose
C1_Witness ==
    /\ pc = "idle"
    /\ current_step >= n_steps
    /\ retval = "false"
    /\ saved_contracts # <<>>
    /\ bulletin_board.breaches # {}
    /\ InLedger # {}

\* C2: current_step starts at 0, always lies in 0..n_steps, grows by exactly 1 in
\* the step() call that returns True and stays the same in every other transition,
\* the call that returns False included; so it never decreases.
C2_StepCounter ==
    /\ current_step = 0
    /\ [][/\ current_step' \in 0..n_steps
          /\ IF pc = "update" /\ retval' = "true"
             THEN current_step' = current_step + 1
             ELSE current_step' = current_step]_vars

\* all the steps were made, each returned True, and one more call returned False
C2_Witness ==
    /\ current_step = n_steps
    /\ Len(stats.activity_level) = n_steps
    /\ retval = "false"

\* C3: after a signing attempt, signed_at and the signatures are set if and only if
\* every partner was asked and answered with a signature; when somebody refused
\* (or the attempt was refused before asking) signed_at stays null and no signature
\* is stored: a contract is never partially bound.
C3_SigningIsAtomic ==
    \A c \in DOMAIN contracts :
      LET k == contracts[c]
      IN  /\ (k.signed_at # None) <=> (k.signatures # {})
          /\ k.signatures # {} =>
                /\ {x[1] : x \in k.signatures} = Range(k.partners)
                /\ \A x \in k.signatures : x[2] # None
          /\ k.n_attempts = 0 => k.signed_at = None
          /\ k.n_attempts > 0 => ((k.signed_at # None) <=> AllSigned(k))

\* one contract bound by all its partners, another refused by only one of them
C3_Witness ==
    \E c, d \in DOMAIN contracts :
        /\ contracts[c].signed_at # None
        /\ contracts[d].asked
        /\ Cardinality(contracts[d].cancelled_by) = 1
        /\ contracts[d].signed_at = None

\* C4: when at least one of the (two or more) invited partners refuses to join, the
\* NegotiationInfo returned has no mechanism and its rejectors are exactly the
\* partners that refused; no negotiator and no listener is registered on the
\* protocol instance, and the instance is not in the world's registry.
C4_RefusedInvitation ==
    (\E a \in Range(Partners) : ~last_neg.responses[a])
        => /\ Len(Partners) >= 2
           /\ last_neg.mechanism = None
           /\ last_neg.rejectors = {a \in Range(Partners) : ~last_neg.responses[a]}
           /\ last_neg.negotiators = {}
           /\ last_neg.listeners = {}
           /\ last_neg.callback = "rejected"
           /\ last_neg.instance \notin DOMAIN negotiations
           /\ last_neg.instance \notin DOMAIN mechs

\* a request that one partner accepted and the other refused
C4_Witness ==
    /\ last_neg.responses["a1"]
    /\ ~last_neg.responses["a2"]
    /\ last_neg.rejectors = {"a2"}

\* C5 (as stated): for every contract left with breaches, the first breach is
\* offered to the hook; if the hook resolves it no later breach of the contract is
\* on the board, otherwise that breach and all the following ones are on the board.
C5_BreachesRecordedUnlessResolved ==
    pc = "simulation" =>
      \A i \in DOMAIN breach_log :
        LET e == breach_log[i]
            first == e.breaches[1]
        IN  /\ first \in Range(e.offered)
            /\ IF first \in Range(e.resolved)
               THEN \A j \in 2..Len(e.breaches) :
                        e.breaches[j] \notin bulletin_board.breaches
               ELSE \A j \in 1..Len(e.breaches) :
                        e.breaches[j] \in bulletin_board.breaches

\* C6: a contract whose agreement has an effective signing delay of 0 is offered
\* for signature on the spot; when its window is admissible and all partners sign,
\* concluded_at = to_be_signed_at = signed_at, every partner has received
\* on_contract_signed exactly once and the world has saved it once; no partner ever
\* receives on_contract_signed for a contract more than once.
C6_ZeroDelaySignedOnTheSpot ==
    \A c \in DOMAIN contracts :
      LET k == contracts[c]
      IN  /\ \A a \in Agents : k.on_contract_signed[a] <= 1
          /\ EffectiveDelay(k.agreement) = 0 =>
                /\ k.to_be_signed_at = k.concluded_at
                /\ k.n_attempts >= 1
                /\ AllSigned(k) =>
                      /\ k.signed_at = k.concluded_at
                      /\ \A a \in Range(k.partners) : k.on_contract_signed[a] = 1
                      /\ Cardinality({i \in DOMAIN saved_contracts :
                                         saved_contracts[i] = c}) = 1

\* a zero-delay contract signed in an earlier step, seen after later steps ran
C6_Witness ==
    \E c \in DOMAIN contracts :
        /\ EffectiveDelay(contracts[c].agreement) = 0
        /\ AllSigned(contracts[c])
        /\ contracts[c].signed_at = 0
        /\ current_step = n_steps

PhaseOrder ==
    IF negotiation_speed = None
    THEN <<"sign", "batch", "entities", "execute", "simulation", "purge", "update">>
    ELSE <<"sign", "entities", "execute", "simulation", "throttled", "purge", "update">>

\* C8: the phases of a step happen in the order signing, batch negotiations (only
\* when negotiation_speed is None), entities, execution, _simulation_step,
\* throttled negotiations (only when negotiation_speed is not None), purge, update
\* of the counters with the increment of current_step: at every moment the phases
\* done are an initial part of that order, a step that returned True did them all,
\* and exactly one of the two negotiation phases is among them.
C8_PhaseOrder ==
    /\ Len(trace) <= Len(PhaseOrder)
    /\ \A i \in DOMAIN trace : trace[i] = PhaseOrder[i]
    /\ pc # "idle" =>
          \/ pc = PhaseOrder[Len(trace) + 1]
          \/ pc = "execute_pass" /\ PhaseOrder[Len(trace) + 1] = "execute"
    /\ retval = "true" =>
          /\ trace = PhaseOrder
          /\ Cardinality({i \in DOMAIN trace : trace[i] \in {"batch", "throttled"}}) = 1

\* a step that returned True in which the throttled phase brought an agreement
C8_Witness ==
    /\ retval = "true"
    /\ negotiation_speed # None
    /\ ~immediate_negotiations
    /\ \E m \in DOMAIN mechs : mechs[m].status = "agreement"

\* C9: signed_at is write-once: a contract stays, a signed_at that is set never
\* changes, and signed_at is only ever set to the current step by an attempt in
\* which all partners signed.
C9_SignedAtWriteOnce ==
    [][/\ \A c \in DOMAIN contracts :
            /\ c \in DOMAIN contracts'
            /\ contracts[c].signed_at # None =>
                  contracts'[c].signed_at = contracts[c].signed_at
            /\ contracts'[c].signed_at # contracts[c].signed_at =>
                  /\ contracts'[c].signed_at = current_step
                  /\ AllSigned(contracts'[c])
       /\ \A c \in DOMAIN contracts' \ DOMAIN contracts :
            contracts'[c].signed_at # None =>
                  /\ contracts'[c].signed_at = current_step
                  /\ AllSigned(contracts'[c])]_vars

\* a contract signed in the signing phase of a later step than its conclusion, seen
\* after the run
C9_Witness ==
    \E c \in DOMAIN contracts :
        /\ contracts[c].signed_at # None
        /\ contracts[c].signed_at > contracts[c].concluded_at
        /\ current_step > contracts[c].signed_at

\* C10: a contract is created with concluded_at = current_step and
\* to_be_signed_at = concluded_at + signing_delay, the delay being the agreement's
\* own when it carries one and the world's default otherwise (delays are not
\* negative); so concluded_at <= to_be_signed_at, and as long as the contract is
\* not signed the ledger holds it under the key to_be_signed_at; it is never held
\* under another key.
C10_ContractDates ==
    [][/\ \A c \in DOMAIN contracts' \ DOMAIN contracts :
            contracts'[c].concluded_at = current_step
       /\ \A c \in DOMAIN contracts' :
            LET k == contracts'[c]
            IN  /\ k.to_be_signed_at = k.concluded_at + EffectiveDelay(k.agreement)
                /\ k.concluded_at <= k.to_be_signed_at
                /\ \A j \in DOMAIN unsigned_contracts' :
                      c \in unsigned_contracts'[j] => j = k.to_be_signed_at
                /\ k.signed_at = None =>
                      c \in LedgerGet(unsigned_contracts', k.to_be_signed_at)]_vars

\* an unsigned contract whose agreement carries a delay other than the default
C10_Witness ==
    \E c \in DOMAIN contracts :
        /\ contracts[c].agreement.signing_delay \notin {None, default_signing_delay}
        /\ contracts[c].to_be_signed_at > contracts[c].concluded_at
        /\ contracts[c].signed_at = None
        /\ c \in LedgerGet(unsigned_contracts, contracts[c].to_be_signed_at)

\* the contracts whose latest signing attempt was refused before any partner was
\* asked (the window test of _sign_contract failed)
RejectedOutright == {c \in DOMAIN contracts :
                        contracts[c].n_attempts > 0 /\ ~contracts[c].asked}

\* C11 (as stated): a contract whose window is inadmissible at signing time is
\* rejected outright: no partner is asked to sign, signed_at stays null, it is not
\* saved as signed, and it is counted among the cancelled contracts of the step of
\* the attempt (the step to_be_signed_at, the only step at which a contract is
\* offered for signature).
C11_RejectedOutrightCountsAsCancelled ==
    /\ \A c \in RejectedOutright :
          /\ \A a \in Agents : contracts[c].sig[a] = None
          /\ contracts[c].signed_at = None
          /\ contracts[c].signatures = {}
          /\ c \notin Range(saved_contracts)
    /\ \A i \in DOMAIN stats.n_contracts_cancelled :
          stats.n_contracts_cancelled[i] >=
              Cardinality({c \in RejectedOutright : contracts[c].to_be_signed_at = i - 1})

\* C12: when at least one partner answers a signing attempt with a null signature,
\* the attempt ends normally with the contract cancelled: it is not bound, every
\* partner, the refusers included, has received on_contract_cancelled exactly once,
\* with rejectors exactly the partners that answered null, and no partner has
\* received on_contract_signed for the contract.
C12_RefusedSignatureCancels ==
    \A c \in DOMAIN contracts :
      LET k == contracts[c]
          refusers == {a \in Range(k.partners) : k.sig[a] = None}
      IN  (k.asked /\ refusers # {}) =>
             /\ k.signed_at = None
             /\ k.signatures = {}
             /\ k.cancelled_by = refusers
             /\ \A a \in Range(k.partners) :
                   /\ k.on_contract_cancelled[a] = 1
                   /\ k.on_contract_signed[a] = 0
             /\ c \notin Range(saved_contracts)

\* a contract that every partner refused to sign, with both of them told
C12_Witness ==
    \E c \in DOMAIN contracts :
        /\ contracts[c].asked
        /\ contracts[c].cancelled_by = Range(Partners)
        /\ \A a \in Range(Partners) : contracts[c].on_contract_cancelled[a] = 1

\* C13: a session whose protocol step yielded an agreement or a broken signal is
\* out of the registry at once (within the pass that stepped it), the World never
\* steps its protocol instance again, and a pass only steps sessions that were
\* registered when it started.
C13_ConcludedSessionLeavesRegistry ==
    /\ \A m \in DOMAIN negotiations : mechs[m].status \notin {"agreement", "broken"}
    /\ \A m \in DOMAIN mechs : ~mechs[m].restepped
    /\ frame.todo \subseteq frame.mechanisms
    /\ \A m \in frame.todo : m \in DOMAIN negotiations

\* in the middle of a pass: a session of the pass has been concluded and removed
\* while another one is still to be stepped
C13_Witness ==
    /\ pc \in {"batch", "throttled"}
    /\ frame.todo # {}
    /\ \E m \in frame.mechanisms :
          /\ m \notin DOMAIN negotiations
          /\ mechs[m].status \in {"agreement", "broken"}

\* how many times partner a was told of the success of session m
SuccessCalls(m, a) ==
    IF m \in DOMAIN contracts THEN contracts[m].on_negotiation_success[a] ELSE 0

\* C14 (as stated): of a session that has ended and is out of the registry, every
\* partner has received on_negotiation_failure exactly once if it ended without an
\* agreement (broken, or expired with neither agreement nor broken signal) and
\* on_negotiation_success exactly once if it ended with an agreement; nobody
\* receives both for one session.
C14_EverySessionEndIsNotified ==
    \A m \in DOMAIN mechs :
      \A a \in Range(Partners) :
        /\ ~(mechs[m].on_negotiation_failure[a] > 0 /\ SuccessCalls(m, a) > 0)
        /\ (Completed(mechs[m]) /\ m \notin DOMAIN negotiations) =>
              IF mechs[m].status = "agreement"
              THEN SuccessCalls(m, a) = 1 /\ mechs[m].on_negotiation_failure[a] = 0
              ELSE mechs[m].on_negotiation_failure[a] = 1 /\ SuccessCalls(m, a) = 0

\* C15: when a step() has returned True, no session of the registry has a protocol
\* instance that reports completed, expired sessions (neither agreement nor broken)
\* included.
C15_NoCompletedSessionAfterStep ==
    retval = "true" => \A m \in DOMAIN negotiations : ~Completed(mechs[m])

\* after a step: an expired session that nobody finalized is gone from the registry
\* while a running one is still registered
C15_Witness ==
    /\ retval = "true"
    /\ \E m \in DOMAIN mechs :
          /\ mechs[m].status = "timedout"
          /\ \A a \in Agents : mechs[m].on_negotiation_failure[a] = 0
          /\ m \notin DOMAIN negotiations
    /\ \E m \in DOMAIN negotiations : mechs[m].status = "running"

\* the entities that have joined the world
RegisteredEntities == {t[2] : t \in Tasks(entities)}

C17_ThrottleBoundsStepsPerStep ==
    negotiation_speed # None =>
        \A m \in DOMAIN mechs : \A i \in DOMAIN mechs[m].n_stepped :
            mechs[m].n_stepped[i] <= negotiation_speed

\* C18: a request that names a protocol which is not in the world's registry of
\* mechanisms is rejected at once: no protocol instance is created, no partner is
\* invited, the caller's rejection callback is called with by = None, the registry
\* is left as it is and request_negotiation returns False
C18_UnregisteredNameRejected ==
    [][(/\ last_neg'.success # "none"
        /\ last_neg'.issues
        /\ mechanisms.given
        /\ last_neg'.mechanism_name \notin DOMAIN mechanisms.dict)
       => /\ last_neg'.instance = None
          /\ last_neg'.mechanism = None
          /\ ~last_neg'.invited
          /\ last_neg'.callback = "rejected"
          /\ last_neg'.by_none
          /\ last_neg'.rejectors = {}
          /\ last_neg'.success = "false"
          /\ negotiations' = negotiations
          /\ mechs' = mechs
          /\ n_negotiations' = n_negotiations]_vars

\* a request for a protocol that is not registered was made, with issues, on a world
\* with a registry that already holds a session
C18_Witness ==
    /\ mechanisms.given
    /\ last_neg.issues
    /\ last_neg.mechanism_name = "other"
    /\ last_neg.success = "false"
    /\ last_neg.by_none
    /\ DOMAIN negotiations # {}

\* C19: the protocol is instantiated with the world's defaults for it merged with
\* the caller's parameters, and for every key present in both the caller's value is
\* the one used (the keys the factory sets itself are left aside)
C19_CallerParamsWin ==
    last_neg.instance # None =>
        /\ DOMAIN last_neg.mechanism_params.dict \subseteq DOMAIN last_neg.params
        /\ DOMAIN Defaults(last_neg.mechanism_name) \subseteq DOMAIN last_neg.params
        /\ \A k \in (DOMAIN last_neg.mechanism_params.dict
                         \cap DOMAIN Defaults(last_neg.mechanism_name))
                        \ DOMAIN FactoryParams :
              last_neg.params[k] = last_neg.mechanism_params.dict[k]

\* C20: when instantiating the protocol raises, the factory catches the exception:
\* nothing propagates to the caller of request_negotiation, the mechanism stays
\* null, no partner is invited, nothing is registered and the answer is False
C20_InstantiationFailureIsCaught ==
    (/\ last_neg.success # "none"
     /\ last_neg.raises
     /\ last_neg.issues
     /\ NameKnown(last_neg.mechanism_name))
    => /\ last_neg.success = "false"
       /\ last_neg.mechanism = None
       /\ last_neg.instance = None
       /\ ~last_neg.invited

\* C21: every request whose setup fails (unregistered name, no issues, instantiation
\* that raises, a partner that refuses) returns False without raising and the
\* caller gets on_neg_request_rejected and not on_neg_request_accepted; every
\* request that succeeds gets on_neg_request_accepted and no rejection
C21_CallerToldOfEveryOutcome ==
    last_neg.success # "none" =>
        IF last_neg.mechanism # None
        THEN last_neg.success = "true" /\ last_neg.callback = "accepted"
        ELSE last_neg.success = "false" /\ last_neg.callback = "rejected"

\* what the claim says of the session of the last request, all partners accepting:
\* one negotiator per partner, each added once with the role given for the partner
\* (None when no roles were given), every partner a listener, the session in the
\* registry under the instance's id (or taken out again by the step made on
\* registration, which ended it)
SessionSetUp ==
    /\ Len(last_neg.added) = Len(Partners)
    /\ \A i \in DOMAIN Partners :
          last_neg.added[i] = <<Partners[i],
                                IF last_neg.roles.given THEN last_neg.roles.dict[i]
                                ELSE NoRole>>
    /\ last_neg.negotiators = Range(Partners)
    /\ last_neg.listeners = Range(Partners)
    /\ last_neg.mechanism = last_neg.instance
    /\ \/ /\ last_neg.instance \in DOMAIN negotiations
          /\ negotiations[last_neg.instance].mechanism = last_neg.instance
       \/ /\ immediate_negotiations
          /\ mechs[last_neg.instance].status \in {"agreement", "broken"}

\* C22: when every invited partner accepts, each representative is added to the
\* protocol instance once with its partner's role, every partner is a listener,
\* and the session is entered in the registry under the instance's id with
\* n_negotiations increased by one
C22_AcceptedSessionRegistered ==
    [][DOMAIN mechs' # DOMAIN mechs
       => /\ last_neg'.callback = "accepted"
          /\ SessionSetUp'
          /\ n_negotiations' = n_negotiations + 1]_vars

\* C22 for the sessions asked for through request_negotiation: run_negotiation
\* counts the session and never enters it in the registry
C22_RequestedSessionRegistered ==
    [][(DOMAIN mechs' # DOMAIN mechs /\ last_neg'.success = "true")
       => /\ last_neg'.callback = "accepted"
          /\ SessionSetUp'
          /\ n_negotiations' = n_negotiations + 1]_vars

\* a second session was set up through request_negotiation, with roles, and is in
\* the registry
C22_Witness ==
    /\ last_neg.success = "true"
    /\ last_neg.roles.given
    /\ last_neg.added = <<(<<"a1", "buyer">>), (<<"a2", "seller">>)>>
    /\ last_neg.instance \in DOMAIN negotiations
    /\ n_negotiations = 2

Records(d) ==
    UNION {{<<d[i][1], e[1], e[2]>> : e \in Range(d[i][2])} : i \in DOMAIN d}

\* C24: a query with section None returns only records held by public sections: every
\* item of its result is an item of some section whose name does not start with '_'.
C24_WildcardQueryIsPublic ==
    (answer.op = "query" /\ answer.section.kind = "none" /\ ~answer.raised) =>
        \A item \in Range(answer.dict) :
            \E i \in DOMAIN data : ~Internal(data[i][1]) /\ item \in Range(data[i][2])

\* a wildcard query has returned records while an internal section holds a record no
\* public section holds
C24_Witness ==
    /\ answer.op = "query" /\ answer.section.kind = "none" /\ ~answer.raised
    /\ answer.dict # <<>>
    /\ \E i \in DOMAIN data :
         /\ Internal(data[i][1])
         /\ \E item \in Range(data[i][2]) :
              \A j \in DOMAIN data :
                  ~Internal(data[j][1]) => item \notin Range(data[j][2])

\* the result of the latest query for the i-th section of its list alone
PartOf(i) ==
    QueryOne(data, answer.section.list[i], answer.query, answer.query_keys).dict

\* C25: a query over a list of sections returns the union of the results for each
\* section, and a key that several listed sections hold comes with the value of the
\* last of them in the list.
C25_ListQueryIsUnionLastWins ==
    (answer.op = "query" /\ answer.section.kind = "list" /\ ~answer.raised) =>
        LET list == answer.section.list
        IN  /\ KeysOf(answer.dict) = UNION {KeysOf(PartOf(i)) : i \in DOMAIN list}
            /\ \A k \in KeysOf(answer.dict) :
                 LET holders == {i \in DOMAIN list : k \in KeysOf(PartOf(i))}
                     last == CHOOSE i \in holders : \A j \in holders : j <= i
                 IN  Get(answer.dict, k) = Get(PartOf(last), k)

\* a query over two sections has returned, both holding one key with different
\* values
C25_Witness ==
    /\ answer.op = "query" /\ answer.section.kind = "list" /\ ~answer.raised
    /\ Len(answer.section.list) = 2
    /\ \E k \in KeysOf(PartOf(1)) \cap KeysOf(PartOf(2)) :
         Get(PartOf(1), k) # Get(PartOf(2), k)

\* C26: lookups never raise: read of an unknown section or key returns None, remove
\* on an unknown section or key returns False, and query returns without raising
\* for a name, a list of names and None.
C26_LookupsNeverRaise ==
    /\ answer.op \in {"read", "query", "remove"} => ~answer.raised
    /\ (answer.op = "read" /\ Read(data, answer.section.name, answer.key.dict) = None)
           => answer.value = None
    /\ (answer.op = "remove" /\ answer.section.kind = "name"
           /\ answer.section.name \notin KeysOf(data)) => ~answer.ok
    /\ (answer.op = "remove" /\ answer.section.kind = "name" /\ answer.key.given
           /\ announced = <<>>) => ~answer.ok

\* what the latest call of record() or remove() has announced, against what it has
\* done to the board: a record call that stores announces one new_record event with
\* its section, key and value once the value is stored (one that raises stores and
\* announces nothing); every entry remove() deletes has one will_remove_record
\* event, announced while the entry is in its section, and there is no other event
RecordAndRemoveAnnounced ==
    /\ (answer'.op = "record" /\ ~answer'.raised) =>
           /\ announced' = <<[type |-> "new_record",
                               section |-> answer'.section.name,
                               key |-> answer'.key.dict,
                               value |-> answer'.value, present |-> TRUE]>>
           /\ <<answer'.section.name, answer'.key.dict, answer'.value>>
                 \in Records(data')
    /\ (answer'.op = "record" /\ answer'.raised) =>
           data' = data /\ announced' = <<>>
    /\ answer'.op = "remove" =>
           LET gone == Records(data) \ Records(data')
           IN  /\ Records(data') \subseteq Records(data)
               /\ \A i \in DOMAIN announced' :
                    /\ announced'[i].type = "will_remove_record"
                    /\ announced'[i].present
               /\ {<<announced'[i].section, announced'[i].key,
                      announced'[i].value>> : i \in DOMAIN announced'} = gone
               /\ Len(announced') = Cardinality(gone)

C28_SampleSizeAndFailure ==
    /\ sampler.pc = "returned" =>
          /\ sampler.n <= sampler.m
          /\ Len(sampler.results) = sampler.n
          /\ \A j \in DOMAIN sampler.results : sampler.results[j] \in 1..sampler.m
          /\ \A j, k \in DOMAIN sampler.results :
                j # k => sampler.results[j] # sampler.results[k]
    /\ sampler.pc = "raised" <=>
          (sampler.pc # "idle" /\ sampler.n > sampler.m /\ sampler.results = <<>>)
    /\ (tournament.capped /\ sampler.pc = "raised") =>
          tournament.pc \in {"sampling", "aborted"}
    /\ (tournament.capped /\ tournament.pc \notin {"sampling", "aborted"}) =>
          /\ sampler.pc = "returned"
          /\ Len(tournament.assignments) + Len(tournament.runs) <= sampler.n

\* two of three items are returned, the third of the stream among them
C28_Witness ==
    /\ sampler.pc = "returned"
    /\ sampler.m = 3 /\ sampler.n = 2
    /\ \E j \in DOMAIN sampler.results : sampler.results[j] = 3

\* C29: an iteration over a WorldGenerator yields len(generator) configurations,
\* the product of the lengths of the lists of values (1 without variations): each
\* has one value of its list in every varied field, and no two are the same.
C29_GeneratorYieldsProduct ==
    generator.pc = "ended" =>
        /\ Len(generator.yielded) = generator.len
        /\ \A j \in DOMAIN generator.yielded, e \in Range(generator.variations) :
              LET v == Get(generator.yielded[j], Split(e[1]))
              IN  ~v.list /\ v.items[1] \in Range(e[2])
        /\ \A j, k \in DOMAIN generator.yielded :
              j # k => generator.yielded[j] # generator.yielded[k]

\* C30: without a cap, Tournament.run() performs len(tournament) runs, the number
\* of assignments times the number of configurations times n_runs_per_variation,
\* and no (assignment, configuration, repetition) is run twice.
C30_RunsAreLen ==
    (tournament.pc \in {"done", "raised"} /\ ~tournament.capped) =>
        /\ tournament.len = Len(tournament.population) * generator.len
                               * tournament.n_per_variation
        /\ Len(tournament.runs) = tournament.len
        /\ \A j, k \in DOMAIN tournament.runs :
              j # k => tournament.runs[j] # tournament.runs[k]

\* the sections the latest call of remove() was to go through
Listed ==
    IF answer.section.kind = "none" THEN PublicSections(data) ELSE answer.section.list

\* C40: remove() with a list of sections, or with None for all public sections,
\* goes through every listed section: afterwards no listed section holds an entry
\* with the given key, the given value or one the query selects, and the flag is
\* True only if something was removed from every listed section.
C40_RemoveCoversEveryListedSection ==
    (answer.op = "remove" /\ answer.section.kind \in {"none", "list"}) =>
        /\ \A j \in DOMAIN Listed :
              Listed[j] \in KeysOf(data) =>
                  LET sec == Get(data, Listed[j])
                  IN  /\ answer.key.given => answer.key.dict \notin KeysOf(sec)
                      /\ answer.value # None =>
                            \A k \in KeysOf(sec) : Get(sec, k) # answer.value
                      /\ ~answer.query.none =>
                            Selected(sec, answer.query, answer.query_keys) = {}
        /\ answer.ok => Len(announced) >= Len(Listed)

\* C31: when the number of assignments times configurations times repetitions is
\* above n_max_runs, Tournament.run() performs at most n_max_runs runs, and the
\* runs use assignments of the enumerated set, none of its places twice.
C31_CapBoundsRuns ==
    (tournament.capped /\ tournament.pc \in {"running", "done", "raised"}) =>
        /\ Len(tournament.runs) <= tournament.n_max
        /\ \E places \in [DOMAIN tournament.runs -> DOMAIN tournament.population] :
              /\ \A j \in DOMAIN tournament.runs :
                    tournament.runs[j].a = tournament.population[places[j]]
              /\ \A j, k \in DOMAIN tournament.runs : j # k => places[j] # places[k]

\* a capped tournament is over: of two assignments it has run the second only
C31_Witness ==
    /\ tournament.capped /\ tournament.pc = "done"
    /\ Len(tournament.population) = 2
    /\ Len(tournament.runs) = 1
    /\ tournament.runs[1].a = tournament.population[2]

\* the runs so far that competitor c took part in
RunsOf(c) == {j \in DOMAIN tournament.runs : c \in Range(tournament.runs[j].a)}

C36_RegistryHoldsStartedSessions ==
    [][/\ \A m \in DOMAIN negotiations' :
             /\ negotiations'[m].mechanism = m
             /\ m \in DOMAIN mechs'
       /\ DOMAIN negotiations' \ DOMAIN negotiations \subseteq
             (IF DOMAIN mechs' # DOMAIN mechs /\ last_neg'.success = "true"
              THEN {last_neg'.instance} ELSE {})
       /\ n_negotiations' > n_negotiations =>
             /\ n_negotiations' = n_negotiations + 1
             /\ DOMAIN mechs' # DOMAIN mechs
             /\ last_neg'.mechanism = last_neg'.instance
       /\ (last_neg' # last_neg /\ last_neg'.mechanism = None) =>
             /\ negotiations' = negotiations
             /\ n_negotiations' = n_negotiations]_vars

\* one session is in the registry, and the request made after it was rejected by
\* a partner: it is not in the registry and was not counted
C36_Witness ==
    /\ DOMAIN negotiations = {1}
    /\ negotiations[1].mechanism = 1
    /\ last_neg.callback = "rejected" /\ last_neg.instance = 2
    /\ n_negotiations = 1

\* the sum of a list of numbers
RECURSIVE SumOf(_)
SumOf(list) == IF list = <<>> THEN 0 ELSE Head(list) + SumOf(Tail(list))

\* C39: between calls of step() each of the nine lists of statistics has
\* current_step entries; the entry of step s for signed contracts counts the
\* contracts signed at s, the one for concluded contracts those concluded at s,
\* and the entries for negotiations, with the counter of the step under way, add up
\* to the sessions started so far: nothing is counted in two steps.
C39_StatsPerStep ==
    /\ pc = "idle" => \A name \in StatNames : Len(stats[name]) = current_step
    /\ \A s \in 0..(current_step - 1) :
          /\ stats.n_contracts_signed[s + 1] =
                Cardinality({c \in DOMAIN contracts : contracts[c].signed_at = s})
          /\ stats.n_contracts_concluded[s + 1] =
                Cardinality({c \in DOMAIN contracts : contracts[c].concluded_at = s})
    /\ pc # "sign" =>
          n_contracts_signed =
             Cardinality({c \in DOMAIN contracts : contracts[c].signed_at = current_step})
    /\ n_contracts_concluded =
          Cardinality({c \in DOMAIN contracts : contracts[c].concluded_at = current_step})
    /\ SumOf(stats.n_negotiations) + n_negotiations = Cardinality(DOMAIN mechs)

\* two steps are over: a session started and a contract concluded in the first, a
\* session started and that contract signed in the second
C39_Witness ==
    /\ pc = "idle" /\ current_step = 2
    /\ stats.n_negotiations = <<1, 1>>
    /\ stats.n_contracts_concluded = <<1, 0>>
    /\ stats.n_contracts_signed = <<0, 1>>

\* ---------------------------------------- negotiations asked for at any time
\* a world without signing delay that steps a session once on registration; its
\* agents ask for negotiations between the calls of step() and in the callbacks of
\* the signing phase
InitAnytime ==
    /\ negotiation_speed \in 1..MaxSpeed
    /\ default_signing_delay = 0
    /\ immediate_negotiations = TRUE
    /\ entities = (0 :> Agents)
    /\ mechanisms = NoDict
    /\ time_limit = FALSE
    /\ callers = {"idle", "sign"}
    /\ run = NoRun
    /\ data = <<>>
    /\ announced = <<>>
    /\ answer = NoAnswer
    /\ sampler = NoSample
    /\ generator = NoGenerator
    /\ tournament = NoTournament
    /\ Constructed

NextAnytime ==
    \/ Next
    \/ SignRaise

SpecAnytime == InitAnytime /\ [][NextAnytime]_vars

\* ------------------------------------------------------- step() running on
\* a world in batch mode (negotiation_speed is None) that keeps the default of
\* no signing delay and steps no session on registration
InitBatch ==
    /\ negotiation_speed = None
    /\ default_signing_delay = 0
    /\ immediate_negotiations = FALSE
    /\ entities = (0 :> Agents)
    /\ mechanisms = NoDict
    /\ Apart
    /\ Constructed

\* step() is one thread of control: once called it goes on, statement after
\* statement, and the callers are the agents and the world it calls
SpecFair == InitBatch /\ [][Next]_vars /\ WF_vars(Next)

\* C34: in batch mode, once every session in the registry has a protocol instance
\* that reported completion, the run-negotiations phase of step() ends, the
\* registry empty.
C34_BatchPhaseTerminates ==
    (/\ pc = "batch"
     /\ \A m \in DOMAIN negotiations : Completed(mechs[m]))
        ~> (pc = "entities" /\ negotiations = <<>>)

\* C35: the contract-execution phase of step() ends, whatever contracts are due,
\* whatever their execution gives and however the breaches are processed.
C35_ExecutionTerminates ==
    (pc \in {"execute", "execute_pass"}) ~> (pc = "simulation")

\* two contracts were attempted in the one pass, both breached twice, no breach
\* was resolved, and the phase is over
C35_Witness ==
    /\ pc = "simulation"
    /\ Len(pass_log) = 1
    /\ Cardinality(pass_log[1].breached) = 2
    /\ Len(breach_log) = 2
    /\ \A i \in DOMAIN breach_log :
          Len(breach_log[i].breaches) = MaxBreaches /\ breach_log[i].resolved = <<>>

\* C37: each contract undergoes one signing attempt at most: no partner's
\* sign_contract is called twice for a contract (a partner asked is told the
\* outcome by one of the two callbacks), and a cancelled contract is not signed.
C37_SingleSigningAttempt ==
    \A c \in DOMAIN contracts :
        LET k == contracts[c]
        IN  /\ k.n_attempts <= 1
            /\ \A a \in Range(k.partners) :
                  k.on_contract_signed[a] + k.on_contract_cancelled[a] <= 1
            /\ k.cancelled_by # {} => k.signed_at = None

\* C38: while the signing phase goes over the set of contracts to sign at
\* current_step, the set stays as it is, whatever the callbacks do.
C38_SigningSetNotModified ==
    [][(pc = "sign" /\ pc' = "sign") =>
          LedgerGet(unsigned_contracts', current_step) =
             LedgerGet(unsigned_contracts, current_step)]_vars

====
